---- MODULE Spec2Model ----
(***************************************************************************)
(* Finality resolution and listener registry of the committer              *)
(* (platform/fabric/core/generic/committer/committer.go).                   *)
(*                                                                         *)
(* Threads: the callers of IsFinal (each with its own call stack, since    *)
(* IsFinal recurses synchronously into its dependencies) and one notifier  *)
(* thread running notify.  The registry mutex is modelled explicitly:      *)
(* addListener and deleteListener are critical sections without a          *)
(* blocking point and are one step each; notify holds the mutex across its *)
(* blocking channel sends and is a lock step, one step per send and an     *)
(* unlock step.                                                            *)
(*                                                                         *)
(* Specifications:                                                         *)
(*   Spec     two concurrent callers of IsFinal on transactions for which  *)
(*            the status oracle reports no dependencies, and the notifier; *)
(*   SpecDeps one caller of IsFinal on transactions with dependencies      *)
(*            (recursion up to MaxDepth), and the notifier;                *)
(*   SpecReg  addListener and deleteListener applied to the registry with  *)
(*            arbitrary arguments;                                         *)
(*   SpecCommit  Commit on one block of up to MaxBlock transactions, and   *)
(*            handleConfig of config.go, with one caller of IsFinal        *)
(*            listening; Commit is the thread that calls notify.           *)
(***************************************************************************)
EXTENDS Naturals, Sequences, FiniteSets

VARIABLES listeners, chans, mutex, stack, nf, notified, op, cm, ec, rv, ov, adb, vr, el

\* the state of the views and of the audit database, which the committer never touches
views == <<ec, rv, ov, adb, vr, el>>

vars == <<listeners, chans, mutex, stack, nf, notified, op, cm, views>>

(***************************************************************************)
(* Bounds and input sets                                                   *)
(***************************************************************************)
\* deepest IsFinal recursion explored (the oracle reports no dependencies at this depth)
MaxDepth == 2
\* number of notify calls explored
MaxNotify == 2
\* number of channels in the registries of SpecReg
MaxRegChans == 3
\* longest block given to Commit (len(block.Data.Data))
MaxBlock == 3
\* longest list of parties given to collectEndorsementsView
MaxParties == 3
\* most responses in the reply of one party
MaxResponses == 2
\* number of notify calls explored in SpecBurst: enough to fill a channel and block
MaxBurst == 102
\* deepest nesting of RunView calls
MaxNest == 2
\* most callbacks registered on one child context
MaxCallbacks == 2
MaxProviders == 2
MaxMoves == 2
MaxIds == 3
\* capacity of a subscriber channel: make(chan TxEvent, 100)
ChanCap == 100

Callers == {"c1", "c2"}
TxIds == {"A", "B", "C"}
ChanIds == 1 .. Cardinality(Callers)
NoChan == 0

\* error values are tuples of strings; the nil error is the empty tuple
Nil == <<>>

\* driver.ValidationCode
Valid == "Valid"
Invalid == "Invalid"
Busy == "Busy"
HasDependencies == "HasDependencies"
Unknown == "Unknown"

\* dependency lists the status oracle may report (one of them closes a cycle)
DepLists == {<<"B">>, <<"B", "C">>, <<"C", "A">>}

\* answers of committer.Status(txid), (vd, deps, err), without dependencies
LeafAnswers ==
    {[vd |-> v, deps |-> <<>>, err |-> Nil] :
        v \in {Valid, Invalid, Busy, HasDependencies, Unknown}}
    \cup {[vd |-> Unknown, deps |-> <<>>, err |-> <<"qscc">>]}

\* answers with a dependency list: only Busy and HasDependencies carry one
DepAnswers ==
    {[vd |-> v, deps |-> d, err |-> Nil] : v \in {Busy, HasDependencies}, d \in DepLists}

StatusAnswers(depth) == IF depth < MaxDepth THEN LeafAnswers \cup DepAnswers ELSE LeafAnswers

\* TxEvent{Txid, Err, DependantTxIDs}; the zero value is the event of a skipped transaction
NoEvent == [Txid |-> "", Err |-> Nil, DependantTxIDs |-> <<>>]
Events ==
    {[Txid |-> "A", Err |-> e, DependantTxIDs |-> <<"B">>] : e \in {Nil, <<"invalid tx">>}}
    \cup {[Txid |-> "B", Err |-> e, DependantTxIDs |-> <<>>] : e \in {Nil, <<"invalid tx">>}}
    \cup {NoEvent}

\* the transactions each caller thread asks about in Spec
CallTargets(c) == IF c = "c1" THEN {"A"} ELSE {"A", "B"}

(***************************************************************************)
(* The registry: map[string][]chan TxEvent                                 *)
(***************************************************************************)
\* c.listeners[txid] of a Go map: the nil slice for a missing key
Lookup(ls, txid) == IF txid \in DOMAIN ls THEN ls[txid] ELSE <<>>

\* c.listeners[txid] = l
Put(ls, txid, l) == [k \in (DOMAIN ls) \cup {txid} |-> IF k = txid THEN l ELSE ls[k]]

\* addListener appending in the !ok branch as well as after it
addListener_Twice(ls, txid, ch) ==
    IF txid \in DOMAIN ls THEN Put(ls, txid, Append(ls[txid], ch))
    ELSE Put(ls, txid, <<ch, ch>>)

addListener(ls, txid, ch) == Put(ls, txid, Append(Lookup(ls, txid), ch))

\* index of the first l == ch in the slice, 0 when the loop ends without a match
RECURSIVE FirstIndex(_, _, _)
FirstIndex(l, ch, i) ==
    IF i > Len(l) THEN 0
    ELSE IF l[i] = ch THEN i
    ELSE FirstIndex(l, ch, i + 1)

\* deleteListener that never stores the shortened slice
deleteListener_NoStore(ls, txid, ch) == ls

\* deleteListener that keeps ls[:i] and drops the channels after the match
deleteListener_Truncate(ls, txid, ch) ==
    IF txid \notin DOMAIN ls THEN ls
    ELSE LET l == ls[txid]
             i == FirstIndex(l, ch, 1)
         IN  IF i = 0 THEN ls ELSE Put(ls, txid, SubSeq(l, 1, i - 1))

deleteListener(ls, txid, ch) ==
    IF txid \notin DOMAIN ls THEN ls
    ELSE LET l == ls[txid]
             i == FirstIndex(l, ch, 1)
         IN  IF i = 0 THEN ls
             ELSE Put(ls, txid, SubSeq(l, 1, i - 1) \o SubSeq(l, i + 1, Len(l)))

\* the channels notify sends to, in sending order: listeners[event.Txid], then
\* listeners[txid] for each txid of event.DependantTxIDs
RECURSIVE DependantTargets(_, _)
DependantTargets(ls, ids) ==
    IF ids = <<>> THEN <<>>
    ELSE Lookup(ls, Head(ids)) \o DependantTargets(ls, Tail(ids))

\* notify that stops after the first listener of event.Txid
notifyTargets_FirstOnly(ls, event) ==
    (IF Lookup(ls, event.Txid) = <<>> THEN <<>> ELSE <<Lookup(ls, event.Txid)[1]>>)
        \o DependantTargets(ls, event.DependantTxIDs)

\* notify without the loop over event.DependantTxIDs
notifyTargets_NoDependants(ls, event) == Lookup(ls, event.Txid)

notifyTargets(ls, event) ==
    Lookup(ls, event.Txid) \o DependantTargets(ls, event.DependantTxIDs)

(***************************************************************************)
(* Call frames of IsFinal / listenTo                                       *)
(***************************************************************************)
\* the locals of a call: vd, deps, err of the last Status answer, the loop position i,
\* the channel ch of listenTo, the event received, the value res being returned, and
\* the number nq of Status queries the call has made
NewFrame(txid) ==
    [txid |-> txid, pc |-> "query", vd |-> Unknown, deps |-> <<>>, err |-> Nil,
     i |-> 0, ch |-> NoChan, recv |-> FALSE, got |-> NoEvent, res |-> Nil, nq |-> 0]

Top(c) == stack[c][Len(stack[c])]
Depth(c) == Len(stack[c])
SetTop(c, f) == [stack EXCEPT ![c] = [@ EXCEPT ![Len(@)] = f]]

\* channels that a new make(chan TxEvent, 100) is distinct from: those still
\* registered and those held by a listenTo call that has not returned
InUse ==
    UNION {{listeners[k][j] : j \in 1 .. Len(listeners[k])} : k \in DOMAIN listeners}
    \cup UNION {{stack[c][d].ch : d \in {e \in 1 .. Len(stack[c]) :
                                          stack[c][e].pc \in {"select", "defer"}}} :
                c \in Callers}
FreeChans == ChanIds \ InUse
NewChan == CHOOSE ch \in FreeChans : \A o \in FreeChans : ch <= o

\* the last registry call made in SpecReg, with the registry it was made on
NoOp == [name |-> "none", txid |-> "", ch |-> NoChan, before |-> [k \in {} |-> <<>>]]

\* common.BlockMetadataIndex_TRANSACTIONS_FILTER: the index, in block.Metadata.Metadata,
\* of the array of validation codes
TRANSACTIONS_FILTER == 2

\* lengths of block.Metadata.Metadata: without the entry at TRANSACTIONS_FILTER
\* (0 .. TRANSACTIONS_FILTER) and with it
MetadataLens == 0 .. TRANSACTIONS_FILTER + 1

HeaderType_CONFIG == "CONFIG"
HeaderType_ENDORSER_TRANSACTION == "ENDORSER_TRANSACTION"
HeaderType_MESSAGE == "MESSAGE"

TxValidationCode_VALID == "VALID"
TxValidationCodes == {TxValidationCode_VALID, "MVCC_READ_CONFLICT"}

\* the transactions a block can hold at one position: bad names the unmarshalling
\* step that fails on it, "none" for a well-formed one
WellFormedTxs ==
    {[type |-> HeaderType_ENDORSER_TRANSACTION, txid |-> t, code |-> v, bad |-> "none"] :
        t \in {"A", "B"}, v \in TxValidationCodes}
    \cup {[type |-> HeaderType_CONFIG, txid |-> "cfg", code |-> v, bad |-> "none"] :
            v \in TxValidationCodes}
    \cup {[type |-> HeaderType_MESSAGE, txid |-> "msg", code |-> TxValidationCode_VALID,
           bad |-> "none"]}

MalformedTxs ==
    {[type |-> HeaderType_ENDORSER_TRANSACTION, txid |-> "A",
      code |-> TxValidationCode_VALID, bad |-> b] : b \in {"envelope", "payload", "header"}}

BlockTxs == WellFormedTxs \cup MalformedTxs

\* the outcomes of the calls handleConfig makes on the network: TRUE for err == nil
ExtOutcomes == [ledger : BOOLEAN, getBlock : BOOLEAN, committer : BOOLEAN, commit : BOOLEAN]

\* the thread running Commit, before the call.  n is len(block.Data.Data), mlen is
\* len(block.Metadata.Metadata), txs the transactions the loop has reached; notes
\* (the calls of notify, each with the number of channels it was to send to),
\* applied (the endorser transactions handed to the ledger) and calls (the calls
\* handleConfig made on the network) record what the call has done
NoCommit ==
    [pc |-> "idle", n |-> 0, mlen |-> 0, txs |-> <<>>, event |-> NoEvent, notes |-> <<>>,
     applied |-> <<>>, calls |-> <<>>, res |-> Nil, why |-> ""]

\* collectEndorsementsView before Call
NoCollect ==
    [pc |-> "idle", parties |-> <<>>, hist |-> <<>>, tx |-> <<>>, sessions |-> <<>>,
     sent |-> <<>>, res |-> Nil, ret |-> FALSE]

\* no RunView call is running; result is what the last call that returned handed to
\* its caller
NoResult == [res |-> "nil", err |-> Nil]
NoRun == [stack |-> <<>>, result |-> NoResult]
\* orderingAndFinalityView before Call: calls are the calls made on the network, berr
\* the error of Broadcast, res the error Call returns
NoOrdering == [pc |-> "idle", found |-> TRUE, calls |-> <<>>, berr |-> Nil, res |-> Nil]
\* the goroutines using the audit database, and the token requests they append
DbThreads == {"t1", "t2", "t3"}
Requests == {"r1", "r2"}
NoThread == "none"

\* a goroutine between calls: qe is the QueryExecutor it holds ("none", "open" or
\* "closed")
IdleThread == [pc |-> "idle", qe |-> "none"]

\* no Append or SetStatus has been called
NoWrite == [op |-> "", arg |-> <<>>]

\* newAuditDB: counter 0, storeLock free (w: the writer that holds or waits for the
\* lock, locked: it holds it, r: read locks held), an empty store; cur is the Append
\* or SetStatus of the writer w, calls and err the driver calls and the returned error
\* of the last Append or SetStatus
NewAuditDB ==
    [counter |-> 0,
     storeLock |-> [w |-> NoThread, locked |-> FALSE, r |-> 0],
     store |-> [a \in Requests |-> "absent"],
     cur |-> NoWrite,
     calls |-> <<>>,
     err |-> Nil,
     th |-> [t \in DbThreads |-> IdleThread]]

\* the loop body of collectEndorsementsView.Call before a response is looked at: msp
\* is what mspManager.GetVerifier answers, providers the list vProviders, i the
\* provider the inner loop is at, asked the sources asked for a verifier so far, st the
\* transaction, found and the error of the call
NoResolution ==
    [pc |-> "idle", msp |-> "err", providers |-> <<>>, i |-> 0, asked |-> <<>>,
     verifier |-> "none", same |-> TRUE,
     st |-> [tx |-> <<>>, found |-> FALSE, err |-> Nil]]

\* the enrollment ids and the goroutines that lock them
EIDs == {"alice", "bob", "carol"}
LockCallers == {"u1", "u2"}

\* eIDsLocks after newAuditDB: no lock stored, none held; a caller between calls
NoLocks ==
    [stored |-> {}, holder |-> [id \in EIDs |-> NoThread],
     th |-> [u \in LockCallers |-> [pc |-> "idle", ids |-> <<>>, i |-> 0]]]

Init ==
    /\ listeners = [k \in {} |-> <<>>]
    /\ chans = [ch \in ChanIds |-> <<>>]
    /\ mutex = "free"
    /\ stack = [c \in Callers |-> <<>>]
    /\ nf = [pc |-> "idle", event |-> NoEvent, targets |-> <<>>, k |-> 0]
    /\ notified = 0
    /\ op = NoOp
    /\ cm = NoCommit
    /\ ec = NoCollect
    /\ rv = NoRun
    /\ ov = NoOrdering
    /\ adb = NewAuditDB
    /\ vr = NoResolution
    /\ el = NoLocks

\* a caller thread invokes IsFinal(txid)
IsFinalCall(c, txid) ==
    /\ stack[c] = <<>>
    /\ stack' = [stack EXCEPT ![c] = <<NewFrame(txid)>>]
    /\ UNCHANGED <<listeners, chans, mutex, nf, notified, op, cm, views>>

\* IsFinal with the Invalid case returning nil
IsFinalSwitch_InvalidNil(f, ans) ==
    LET g == [f EXCEPT !.vd = ans.vd, !.deps = ans.deps, !.err = ans.err, !.nq = f.nq + 1]
    IN  IF ans.err # Nil
        THEN [g EXCEPT !.pc = "ret", !.res = <<"vault", f.txid>> \o ans.err]
        ELSE CASE ans.vd \in {Valid, Invalid} -> [g EXCEPT !.pc = "ret", !.res = Nil]
               [] ans.vd \in {Busy, HasDependencies} /\ Len(ans.deps) # 0 ->
                    [g EXCEPT !.pc = "deps", !.i = 1]
               [] ans.vd = Busy /\ Len(ans.deps) = 0 -> [g EXCEPT !.pc = "listenTo"]
               [] OTHER -> [g EXCEPT !.pc = "finality"]

\* IsFinal with the Unknown case falling through to listenTo
IsFinalSwitch_UnknownListens(f, ans) ==
    LET g == [f EXCEPT !.vd = ans.vd, !.deps = ans.deps, !.err = ans.err, !.nq = f.nq + 1]
    IN  IF ans.err # Nil
        THEN [g EXCEPT !.pc = "ret", !.res = <<"vault", f.txid>> \o ans.err]
        ELSE CASE ans.vd = Valid -> [g EXCEPT !.pc = "ret", !.res = Nil]
               [] ans.vd = Invalid -> [g EXCEPT !.pc = "ret", !.res = <<"not valid", f.txid>>]
               [] ans.vd \in {Busy, HasDependencies} /\ Len(ans.deps) # 0 ->
                    [g EXCEPT !.pc = "deps", !.i = 1]
               [] ans.vd = HasDependencies -> [g EXCEPT !.pc = "finality"]
               [] OTHER -> [g EXCEPT !.pc = "listenTo"]

\* IsFinal with the error of committer.Status ignored: the switch runs on vd alone
IsFinalSwitch_ErrIgnored(f, ans) ==
    LET g == [f EXCEPT !.vd = ans.vd, !.deps = ans.deps, !.err = ans.err, !.nq = f.nq + 1]
    IN  CASE ans.vd = Valid -> [g EXCEPT !.pc = "ret", !.res = Nil]
          [] ans.vd = Invalid -> [g EXCEPT !.pc = "ret", !.res = <<"not valid", f.txid>>]
          [] ans.vd \in {Busy, HasDependencies} /\ Len(ans.deps) # 0 ->
               [g EXCEPT !.pc = "deps", !.i = 1]
          [] ans.vd = Busy -> [g EXCEPT !.pc = "listenTo"]
          [] OTHER -> [g EXCEPT !.pc = "finality"]

\* IsFinal with the Valid case waiting for the commit event like a Busy one
IsFinalSwitch_ValidListens(f, ans) ==
    LET g == [f EXCEPT !.vd = ans.vd, !.deps = ans.deps, !.err = ans.err, !.nq = f.nq + 1]
    IN  IF ans.err # Nil
        THEN [g EXCEPT !.pc = "ret", !.res = <<"vault", f.txid>> \o ans.err]
        ELSE CASE ans.vd = Invalid -> [g EXCEPT !.pc = "ret", !.res = <<"not valid", f.txid>>]
               [] ans.vd \in {Busy, HasDependencies} /\ Len(ans.deps) # 0 ->
                    [g EXCEPT !.pc = "deps", !.i = 1]
               [] ans.vd \in {Valid, Busy} -> [g EXCEPT !.pc = "listenTo"]
               [] OTHER -> [g EXCEPT !.pc = "finality"]

\* the switch on the answer of committer.Status(txid) in IsFinal
IsFinalSwitch(f, ans) ==
    LET g == [f EXCEPT !.vd = ans.vd, !.deps = ans.deps, !.err = ans.err, !.nq = f.nq + 1]
    IN  IF ans.err # Nil
        THEN [g EXCEPT !.pc = "ret", !.res = <<"vault", f.txid>> \o ans.err]
        ELSE CASE ans.vd = Valid -> [g EXCEPT !.pc = "ret", !.res = Nil]
               [] ans.vd = Invalid -> [g EXCEPT !.pc = "ret", !.res = <<"not valid", f.txid>>]
               [] ans.vd = Busy ->
                    IF Len(ans.deps) # 0
                    THEN [g EXCEPT !.pc = "deps", !.i = 1]
                    ELSE [g EXCEPT !.pc = "listenTo"]
               [] ans.vd = HasDependencies ->
                    IF Len(ans.deps) # 0
                    THEN [g EXCEPT !.pc = "deps", !.i = 1]
                    ELSE [g EXCEPT !.pc = "finality"]
               [] ans.vd = Unknown -> [g EXCEPT !.pc = "finality"]

\* the stack once frame g has replaced the top: a frame in the loop over deps has
\* called IsFinal(deps[i])
Continue(st, g) ==
    LET t == [st EXCEPT ![Len(st)] = g]
    IN  IF g.pc = "deps" THEN Append(t, NewFrame(g.deps[g.i])) ELSE t

\* IsFinal: c.network.Committer(c.channel), committer.Status(txid) and the switch
IsFinalStatus(c, answers) ==
    /\ stack[c] # <<>>
    /\ Top(c).pc = "query"
    /\ \E ok \in BOOLEAN :
        IF ~ok
        THEN stack' = SetTop(c, [Top(c) EXCEPT !.pc = "ret", !.res = <<"no committer">>])
        ELSE \E ans \in answers :
                stack' = [stack EXCEPT ![c] = Continue(@, IsFinalSwitch(Top(c), ans))]
    /\ UNCHANGED <<listeners, chans, mutex, nf, notified, op, cm, views>>

\* the loop over deps logging the error of a dependency and going on
IsFinalNext_IgnoreErr(parent, err) ==
    IF parent.i = Len(parent.deps) THEN [parent EXCEPT !.pc = "ret", !.res = Nil]
    ELSE [parent EXCEPT !.i = parent.i + 1]

\* the loop over deps without the return nil after it: falls out of the switch
IsFinalNext_FallThrough(parent, err) ==
    IF err # Nil THEN [parent EXCEPT !.pc = "ret", !.res = err]
    ELSE IF parent.i = Len(parent.deps) THEN [parent EXCEPT !.pc = "listenTo"]
    ELSE [parent EXCEPT !.i = parent.i + 1]

\* the body of the loop over deps after IsFinal(deps[i]) has returned err
IsFinalNext(parent, err) ==
    IF err # Nil THEN [parent EXCEPT !.pc = "ret", !.res = err]
    ELSE IF parent.i = Len(parent.deps) THEN [parent EXCEPT !.pc = "ret", !.res = Nil]
    ELSE [parent EXCEPT !.i = parent.i + 1]

\* a call returns: to the caller thread, or into the loop over deps of its parent
Return(c) ==
    /\ stack[c] # <<>>
    /\ Top(c).pc = "ret"
    /\ IF Depth(c) = 1
       THEN stack' = [stack EXCEPT ![c] = <<>>]
       ELSE stack' = [stack EXCEPT ![c] =
                        Continue(SubSeq(@, 1, Len(@) - 1),
                                 IsFinalNext(@[Len(@) - 1], Top(c).res))]
    /\ UNCHANGED <<listeners, chans, mutex, nf, notified, op, cm, views>>

\* c.finality.IsFinal(txid, address): the external finality service decides
FinalityIsFinal(c) ==
    /\ stack[c] # <<>>
    /\ Top(c).pc = "finality"
    /\ \E r \in {Nil, <<"finality">>} :
        stack' = SetTop(c, [Top(c) EXCEPT !.pc = "ret", !.res = r])
    /\ UNCHANGED <<listeners, chans, mutex, nf, notified, op, cm, views>>

\* listenTo: ch := make(chan TxEvent, 100); c.addListener(txid, ch)
listenToAdd(c) ==
    /\ stack[c] # <<>>
    /\ Top(c).pc = "listenTo"
    /\ mutex = "free"
    /\ FreeChans # {}
    /\ LET ch == NewChan
       IN  /\ chans' = [chans EXCEPT ![ch] = <<>>]
           /\ listeners' = addListener(listeners, Top(c).txid, ch)
           /\ stack' = SetTop(c, [Top(c) EXCEPT !.pc = "select", !.ch = ch])
    /\ UNCHANGED <<mutex, nf, notified, op, cm, views>>

\* listenTo returning nil whatever the event says
listenToRecv_Nil(f, event) ==
    [f EXCEPT !.pc = "defer", !.recv = TRUE, !.got = event, !.res = Nil]

\* listenTo, case event := <-ch: return event.Err
listenToRecv(f, event) ==
    [f EXCEPT !.pc = "defer", !.recv = TRUE, !.got = event, !.res = event.Err]

listenToEvent(c) ==
    /\ stack[c] # <<>>
    /\ Top(c).pc = "select"
    /\ chans[Top(c).ch] # <<>>
    /\ stack' = SetTop(c, listenToRecv(Top(c), Head(chans[Top(c).ch])))
    /\ chans' = [chans EXCEPT ![Top(c).ch] = Tail(@)]
    /\ UNCHANGED <<listeners, mutex, nf, notified, op, cm, views>>

\* listenTo with a timeout that fails only for an Invalid transaction
listenToSwitch_PendingNil(f, ans) ==
    LET g == [f EXCEPT !.vd = ans.vd, !.err = ans.err, !.nq = f.nq + 1, !.pc = "defer"]
    IN  IF ans.err = Nil /\ ans.vd = Invalid
        THEN [g EXCEPT !.res = <<"not valid", f.txid>>]
        ELSE [g EXCEPT !.res = Nil]

\* the switch of listenTo on the answer of the query made after the timeout
listenToSwitch(f, ans) ==
    LET g == [f EXCEPT !.vd = ans.vd, !.err = ans.err, !.nq = f.nq + 1, !.pc = "defer"]
    IN  IF ans.err = Nil /\ ans.vd = Valid THEN [g EXCEPT !.res = Nil]
        ELSE IF ans.err = Nil /\ ans.vd = Invalid
        THEN [g EXCEPT !.res = <<"not valid", f.txid>>]
        ELSE [g EXCEPT !.res = <<"timeout", f.txid>> \o ans.err \o <<ans.vd>>]

\* listenTo, case <-time.After(timeout): query the status once more
listenToTimeout(c, answers) ==
    /\ stack[c] # <<>>
    /\ Top(c).pc = "select"
    /\ \E ok \in BOOLEAN :
        IF ~ok
        THEN stack' = SetTop(c, [Top(c) EXCEPT !.pc = "defer", !.res = <<"no committer">>])
        ELSE \E ans \in answers : stack' = SetTop(c, listenToSwitch(Top(c), ans))
    /\ UNCHANGED <<listeners, chans, mutex, nf, notified, op, cm, views>>

\* listenTo returns: the deferred c.deleteListener(txid, ch) runs first
listenToReturn(c) ==
    /\ stack[c] # <<>>
    /\ Top(c).pc = "defer"
    /\ mutex = "free"
    /\ listeners' = deleteListener(listeners, Top(c).txid, Top(c).ch)
    /\ chans' = [chans EXCEPT ![Top(c).ch] = <<>>]
    /\ stack' = SetTop(c, [Top(c) EXCEPT !.pc = "ret"])
    /\ UNCHANGED <<mutex, nf, notified, op, cm, views>>

\* notify: c.mutex.Lock(); the registry, and so the channels notify will send to,
\* cannot change until the unlock
notifyEnter(event) ==
    /\ nf.pc = "idle"
    /\ mutex = "free"
    /\ mutex' = "notify"
    /\ nf' = [pc |-> "send", event |-> event, targets |-> notifyTargets(listeners, event),
              k |-> 0]
    /\ notified' = notified + 1
    /\ UNCHANGED <<listeners, chans, stack, op, views>>

\* notify called by a thread other than Commit, at most MaxNotify times
notifyLock(event) ==
    /\ notified < MaxNotify
    /\ notifyEnter(event)
    /\ UNCHANGED <<cm, views>>

\* notify: listener <- event, blocking while the channel is full
notifySend ==
    /\ nf.pc = "send"
    /\ nf.k < Len(nf.targets)
    /\ Len(chans[nf.targets[nf.k + 1]]) < ChanCap
    /\ chans' = [chans EXCEPT ![nf.targets[nf.k + 1]] = Append(@, nf.event)]
    /\ nf' = [nf EXCEPT !.k = nf.k + 1]
    /\ UNCHANGED <<listeners, mutex, stack, notified, op, cm, views>>

\* notify returns: the deferred c.mutex.Unlock()
notifyUnlock ==
    /\ nf.pc = "send"
    /\ nf.k = Len(nf.targets)
    /\ mutex' = "free"
    /\ nf' = [pc |-> "idle", event |-> NoEvent, targets |-> <<>>, k |-> 0]
    /\ UNCHANGED <<listeners, chans, stack, notified, op, cm, views>>

Notifier ==
    \/ \E event \in Events : notifyLock(event)
    \/ notifySend
    \/ notifyUnlock

Next ==
    \/ \E c \in Callers : \E txid \in CallTargets(c) : IsFinalCall(c, txid)
    \/ \E c \in Callers : IsFinalStatus(c, LeafAnswers)
    \/ \E c \in Callers : Return(c)
    \/ \E c \in Callers : FinalityIsFinal(c)
    \/ \E c \in Callers : listenToAdd(c)
    \/ \E c \in Callers : listenToEvent(c)
    \/ \E c \in Callers : listenToTimeout(c, LeafAnswers)
    \/ \E c \in Callers : listenToReturn(c)
    \/ Notifier

Spec == Init /\ [][Next]_vars

NextDeps ==
    \/ IsFinalCall("c1", "A")
    \/ IsFinalStatus("c1", StatusAnswers(Depth("c1")))
    \/ Return("c1")
    \/ FinalityIsFinal("c1")
    \/ listenToAdd("c1")
    \/ listenToEvent("c1")
    \/ listenToTimeout("c1", LeafAnswers \cup DepAnswers)
    \/ listenToReturn("c1")
    \/ Notifier

SpecDeps == Init /\ [][NextDeps]_vars

(***************************************************************************)
(* SpecReg: the registry functions on their own                            *)
(***************************************************************************)
RegChans == 1 .. MaxRegChans

AllRegistered(ls) == UNION {{ls[k][j] : j \in 1 .. Len(ls[k])} : k \in DOMAIN ls}

\* addListener with a channel fresh from make, as listenTo calls it
RegAdd(txid, ch) ==
    /\ ch \notin AllRegistered(listeners)
    /\ listeners' = addListener(listeners, txid, ch)
    /\ op' = [name |-> "addListener", txid |-> txid, ch |-> ch, before |-> listeners]
    /\ UNCHANGED <<chans, mutex, stack, nf, notified, cm, views>>

\* deleteListener with any txid and any channel
RegDelete(txid, ch) ==
    /\ listeners' = deleteListener(listeners, txid, ch)
    /\ op' = [name |-> "deleteListener", txid |-> txid, ch |-> ch, before |-> listeners]
    /\ UNCHANGED <<chans, mutex, stack, nf, notified, cm, views>>

NextReg ==
    \/ \E txid \in TxIds, ch \in RegChans : RegAdd(txid, ch)
    \/ \E txid \in TxIds, ch \in RegChans : RegDelete(txid, ch)

SpecReg == Init /\ [][NextReg]_vars

(***************************************************************************)
(* SpecCommit: Commit on one block, with one caller of IsFinal listening   *)
(***************************************************************************)

\* a call made on the network, ok for err == nil
Call(name, ok) == [call |-> name, ok |-> ok]

\* handleConfig with the check of len(transactions) left out
handleConfig_NoLengthCheck(hasBlock, n, code, ext) ==
    LET fetch == IF hasBlock THEN <<>>
                 ELSE <<Call("Ledger", TRUE), Call("GetBlockByNumber", ext.getBlock)>>
    IN  IF ~hasBlock /\ ~ext.ledger
        THEN [panic |-> "cannot get ledger", calls |-> <<Call("Ledger", FALSE)>>]
        ELSE IF ~hasBlock /\ ~ext.getBlock
        THEN [panic |-> "cannot get filteredBlock", calls |-> fetch]
        ELSE IF code # TxValidationCode_VALID
        THEN [panic |-> "", calls |-> fetch]
        ELSE IF ~ext.committer
        THEN [panic |-> "Cannot get Committer", calls |-> fetch \o <<Call("Committer", FALSE)>>]
        ELSE [panic |-> IF ext.commit THEN "" ELSE "Cannot commit config envelope",
              calls |-> fetch \o <<Call("Committer", TRUE), Call("CommitConfig", ext.commit)>>]

\* handleConfig fetching the block whether or not it was given one
handleConfig_AlwaysFetch(hasBlock, n, code, ext) ==
    LET fetch == <<Call("Ledger", TRUE), Call("GetBlockByNumber", ext.getBlock)>>
    IN  IF ~ext.ledger
        THEN [panic |-> "cannot get ledger", calls |-> <<Call("Ledger", FALSE)>>]
        ELSE IF ~ext.getBlock
        THEN [panic |-> "cannot get filteredBlock", calls |-> fetch]
        ELSE IF n # 1
        THEN [panic |-> "Config block should contain only one transaction",
              calls |-> fetch]
        ELSE IF code # TxValidationCode_VALID
        THEN [panic |-> "", calls |-> fetch]
        ELSE IF ~ext.committer
        THEN [panic |-> "Cannot get Committer", calls |-> fetch \o <<Call("Committer", FALSE)>>]
        ELSE [panic |-> IF ext.commit THEN "" ELSE "Cannot commit config envelope",
              calls |-> fetch \o <<Call("Committer", TRUE), Call("CommitConfig", ext.commit)>>]

\* handleConfig with a failure of CommitConfig logged and not fatal
handleConfig_CommitErrLogged(hasBlock, n, code, ext) ==
    LET fetch == IF hasBlock THEN <<>>
                 ELSE <<Call("Ledger", TRUE), Call("GetBlockByNumber", ext.getBlock)>>
    IN  IF ~hasBlock /\ ~ext.ledger
        THEN [panic |-> "cannot get ledger", calls |-> <<Call("Ledger", FALSE)>>]
        ELSE IF ~hasBlock /\ ~ext.getBlock
        THEN [panic |-> "cannot get filteredBlock", calls |-> fetch]
        ELSE IF n # 1
        THEN [panic |-> "Config block should contain only one transaction",
              calls |-> fetch]
        ELSE IF code # TxValidationCode_VALID
        THEN [panic |-> "", calls |-> fetch]
        ELSE IF ~ext.committer
        THEN [panic |-> "Cannot get Committer", calls |-> fetch \o <<Call("Committer", FALSE)>>]
        ELSE [panic |-> "", calls |-> fetch \o <<Call("Committer", TRUE), Call("CommitConfig", ext.commit)>>]

\* handleConfig: panic is the message of the logger.Panicf reached, "" when the
\* function returns; calls are the calls made on the network, in order, each with
\* its outcome
handleConfig(hasBlock, n, code, ext) ==
    LET fetch == IF hasBlock THEN <<>>
                 ELSE <<Call("Ledger", TRUE), Call("GetBlockByNumber", ext.getBlock)>>
    IN  IF ~hasBlock /\ ~ext.ledger
        THEN [panic |-> "cannot get ledger", calls |-> <<Call("Ledger", FALSE)>>]
        ELSE IF ~hasBlock /\ ~ext.getBlock
        THEN [panic |-> "cannot get filteredBlock", calls |-> fetch]
        ELSE IF n # 1
        THEN [panic |-> "Config block should contain only one transaction",
              calls |-> fetch]
        ELSE IF code # TxValidationCode_VALID
        THEN [panic |-> "", calls |-> fetch]
        ELSE IF ~ext.committer
        THEN [panic |-> "Cannot get Committer", calls |-> fetch \o <<Call("Committer", FALSE)>>]
        ELSE [panic |-> IF ext.commit THEN "" ELSE "Cannot commit config envelope",
              calls |-> fetch \o <<Call("Committer", TRUE), Call("CommitConfig", ext.commit)>>]

\* the thread after handleConfig has answered h
AfterConfig(d, h) ==
    IF h.panic # ""
    THEN [d EXCEPT !.pc = "panic", !.why = h.panic, !.calls = @ \o h.calls]
    ELSE [d EXCEPT !.pc = "notify", !.calls = @ \o h.calls]

\* handleEndorserTransaction: reads the validation code of the transaction from the
\* entry of the metadata at TRANSACTIONS_FILTER (indexing past the end of the slice
\* panics), hands the transaction to the ledger and fills the event
handleEndorserTransaction(d, tx) ==
    IF d.mlen <= TRANSACTIONS_FILTER
    THEN [d EXCEPT !.pc = "panic", !.why = "index out of range",
                   !.applied = Append(@, [i |-> Len(d.txs), txid |-> tx.txid,
                                          code |-> "none"])]
    ELSE [d EXCEPT !.pc = "notify",
                   !.applied = Append(@, [i |-> Len(d.txs), txid |-> tx.txid,
                                          code |-> tx.code]),
                   !.event = [Txid |-> tx.txid,
                              Err |-> IF tx.code = TxValidationCode_VALID
                                      THEN Nil ELSE <<"invalid tx">>,
                              DependantTxIDs |-> <<>>]]

\* the body of the loop of Commit with notify called for valid transactions only
CommitStep_NotifyValidOnly(c, tx, ext) ==
    LET d == [c EXCEPT !.txs = Append(@, tx), !.event = NoEvent]
        e == IF tx.bad # "none"
             THEN [d EXCEPT !.pc = "returned", !.res = <<"unmarshal", tx.bad>>]
             ELSE CASE tx.type = HeaderType_CONFIG ->
                        AfterConfig(d, handleConfig(TRUE, c.n, tx.code, ext))
                    [] tx.type = HeaderType_ENDORSER_TRANSACTION ->
                        IF c.mlen < TRANSACTIONS_FILTER
                        THEN [d EXCEPT !.pc = "returned",
                                       !.res = <<"block metadata lacks transaction filter">>]
                        ELSE handleEndorserTransaction(d, tx)
                    [] OTHER -> [d EXCEPT !.pc = "notify"]
    IN  IF e.pc = "notify" /\ e.event.Err # Nil THEN [e EXCEPT !.pc = "loop"] ELSE e

\* the body of the loop of Commit with an error returned for an unhandled header type
CommitStep_UnhandledFails(c, tx, ext) ==
    LET d == [c EXCEPT !.txs = Append(@, tx), !.event = NoEvent]
    IN  IF tx.bad # "none"
        THEN [d EXCEPT !.pc = "returned", !.res = <<"unmarshal", tx.bad>>]
        ELSE CASE tx.type = HeaderType_CONFIG ->
                    AfterConfig(d, handleConfig(TRUE, c.n, tx.code, ext))
               [] tx.type = HeaderType_ENDORSER_TRANSACTION ->
                    IF c.mlen < TRANSACTIONS_FILTER
                    THEN [d EXCEPT !.pc = "returned",
                                   !.res = <<"block metadata lacks transaction filter">>]
                    ELSE handleEndorserTransaction(d, tx)
               [] OTHER -> [d EXCEPT !.pc = "returned", !.res = <<"unhandled type">>]

\* the body of the loop of Commit on transaction tx, up to the call of notify: the
\* three unmarshalling steps, then the switch on the header type
CommitStep(c, tx, ext) ==
    LET d == [c EXCEPT !.txs = Append(@, tx), !.event = NoEvent]
    IN  IF tx.bad # "none"
        THEN [d EXCEPT !.pc = "returned", !.res = <<"unmarshal", tx.bad>>]
        ELSE CASE tx.type = HeaderType_CONFIG ->
                    AfterConfig(d, handleConfig(TRUE, c.n, tx.code, ext))
               [] tx.type = HeaderType_ENDORSER_TRANSACTION ->
                    IF c.mlen < TRANSACTIONS_FILTER
                    THEN [d EXCEPT !.pc = "returned",
                                   !.res = <<"block metadata lacks transaction filter">>]
                    ELSE handleEndorserTransaction(d, tx)
               [] OTHER -> [d EXCEPT !.pc = "notify"]

\* Commit(block) is called with a block of n transactions and mlen metadata entries
CommitBegin(n, mlen) ==
    /\ cm.pc = "idle"
    /\ cm' = [cm EXCEPT !.pc = "loop", !.n = n, !.mlen = mlen]
    /\ UNCHANGED <<listeners, chans, mutex, stack, nf, notified, op, views>>

\* one iteration of the loop, up to the call of notify
CommitTx ==
    /\ cm.pc = "loop"
    /\ Len(cm.txs) < cm.n
    /\ \E tx \in BlockTxs, ext \in ExtOutcomes : cm' = CommitStep(cm, tx, ext)
    /\ UNCHANGED <<listeners, chans, mutex, stack, nf, notified, op, views>>

\* c.notify(event): the lock step of notify
CommitNotify ==
    /\ cm.pc = "notify"
    /\ notifyEnter(cm.event)
    /\ cm' = [cm EXCEPT !.pc = "notifying",
                        !.notes = Append(@, [event |-> cm.event,
                                             targets |-> Len(notifyTargets(listeners,
                                                                           cm.event))])]

\* notify has returned: the loop goes to the next transaction
CommitNext ==
    /\ cm.pc = "notifying"
    /\ nf.pc = "idle"
    /\ cm' = [cm EXCEPT !.pc = "loop"]
    /\ UNCHANGED <<listeners, chans, mutex, stack, nf, notified, op, views>>

\* the loop is over: return nil
CommitReturn ==
    /\ cm.pc = "loop"
    /\ Len(cm.txs) = cm.n
    /\ cm' = [cm EXCEPT !.pc = "returned", !.res = Nil]
    /\ UNCHANGED <<listeners, chans, mutex, stack, nf, notified, op, views>>

\* handleConfig called with block == nil on the only or one of several transactions
\* of a filtered block
handleConfigNoBlock(n) ==
    /\ cm.pc = "idle"
    /\ \E code \in TxValidationCodes, ext \in ExtOutcomes :
        cm' = AfterConfig([cm EXCEPT !.n = n,
                                     !.txs = <<[type |-> HeaderType_CONFIG, txid |-> "cfg",
                                                code |-> code, bad |-> "none"]>>],
                          handleConfig(FALSE, n, code, ext))
    /\ UNCHANGED <<listeners, chans, mutex, stack, nf, notified, op, views>>

NextCommit ==
    \/ \E n \in 0 .. MaxBlock, mlen \in MetadataLens : CommitBegin(n, mlen)
    \/ CommitTx
    \/ CommitNotify
    \/ notifySend
    \/ notifyUnlock
    \/ CommitNext
    \/ CommitReturn
    \/ \E n \in 1 .. MaxBlock : handleConfigNoBlock(n)
    \/ IsFinalCall("c1", "A")
    \/ IsFinalStatus("c1", LeafAnswers)
    \/ Return("c1")
    \/ FinalityIsFinal("c1")
    \/ listenToAdd("c1")
    \/ listenToEvent("c1")
    \/ listenToTimeout("c1", LeafAnswers)
    \/ listenToReturn("c1")

SpecCommit == Init /\ [][NextCommit]_vars

(***************************************************************************)
(* SpecEndorse: collectEndorsementsView.Call (config.go, package endorser) *)
(***************************************************************************)
committerVars == <<listeners, chans, mutex, stack, nf, notified, op, cm>>

\* c.parties: the local party and two remote ones
Parties == {"me", "B", "C"}

\* context.IsMe(party)
IsMe(party) == party = "me"

\* view2.GetEndpointService(context).IsBoundTo(endorser, party): identity "b" is
\* bound to party B, "c" to party C, "x" to no party of the list
IsBoundTo(endorser, party) ==
    \/ endorser = "b" /\ party = "B"
    \/ endorser = "c" /\ party = "C"

\* the marshalled ProposalResponse messages of a reply: check names the first check
\* of the loop the response fails, "ok" when it passes them all
Responses ==
    {[endorser |-> e, check |-> "ok"] : e \in {"b", "c", "x"}}
    \cup {[endorser |-> "b", check |-> k] :
            k \in {"unparsable", "noverifier", "badsig", "diff"}}

\* sequences of at most n elements of S
SeqUpTo(S, n) == UNION {[1 .. k -> S] : k \in 0 .. n}

NoReply == [status |-> "NONE", parsable |-> TRUE, responses |-> <<>>]

\* the messages a remote party can answer with: view.ERROR, a payload that is no
\* JSON array, or an array of responses
Replies ==
    {[status |-> "ERROR", parsable |-> TRUE, responses |-> <<>>],
     [status |-> "OK", parsable |-> FALSE, responses |-> <<>>]}
    \cup {[status |-> "OK", parsable |-> TRUE, responses |-> rs] :
            rs \in SeqUpTo(Responses, MaxResponses)}

PartyLists == SeqUpTo(Parties, MaxParties) \ {<<>>}

\* the identities that have endorsed the transaction
Endorsers(tx) == {tx[k] : k \in 1 .. Len(tx)}

\* AppendProposalResponse that appends whatever it is given
AppendProposalResponse_NoCheck(tx, endorser) == [tx |-> Append(tx, endorser), err |-> Nil]

\* Transaction.AppendProposalResponse: a transaction is endorsed by an identity at
\* most once, a second endorsement by the same identity is rejected
AppendProposalResponse(tx, endorser) ==
    IF endorser \in Endorsers(tx)
    THEN [tx |-> tx, err |-> <<"duplicate endorsement", endorser>>]
    ELSE [tx |-> Append(tx, endorser), err |-> Nil]

\* Transaction.EndorseWithIdentity: signs in-process with the local identity; ok is
\* the outcome of the signing
EndorseWithIdentity(tx, party, ok) ==
    IF ~ok THEN [tx |-> tx, err |-> <<"cannot sign", party>>]
    ELSE AppendProposalResponse(tx, party)

\* the loop body without the verification of the signature
ProcessResponse_NoVerify(st, r, party) ==
    IF r.check = "unparsable"
    THEN [st EXCEPT !.err = <<"failed unmarshalling received proposal response">>]
    ELSE LET t == [st EXCEPT !.found = st.found \/ IsBoundTo(r.endorser, party)]
         IN  CASE r.check = "noverifier" ->
                    [t EXCEPT !.err = <<"failed getting verifier for party", r.endorser>>]
               [] r.check = "diff" -> [t EXCEPT !.err = <<"received different results">>]
               [] OTHER ->
                    LET a == AppendProposalResponse(t.tx, r.endorser)
                    IN  IF a.err # Nil
                        THEN [t EXCEPT !.err =
                                <<"failed appending received proposal response">> \o a.err]
                        ELSE [t EXCEPT !.tx = a.tx]

\* one response of the reply of party, on st = [tx, found, err]: parse, note whether
\* the endorser is bound to the party, find a verifier, verify the signature, compare
\* the results, append
ProcessResponse(st, r, party) ==
    IF r.check = "unparsable"
    THEN [st EXCEPT !.err = <<"failed unmarshalling received proposal response">>]
    ELSE LET t == [st EXCEPT !.found = st.found \/ IsBoundTo(r.endorser, party)]
         IN  CASE r.check = "noverifier" ->
                    [t EXCEPT !.err = <<"failed getting verifier for party", r.endorser>>]
               [] r.check = "badsig" ->
                    [t EXCEPT !.err = <<"failed verifying endorsement for party",
                                        r.endorser>>]
               [] r.check = "diff" -> [t EXCEPT !.err = <<"received different results">>]
               [] OTHER ->
                    LET a == AppendProposalResponse(t.tx, r.endorser)
                    IN  IF a.err # Nil
                        THEN [t EXCEPT !.err =
                                <<"failed appending received proposal response">> \o a.err]
                        ELSE [t EXCEPT !.tx = a.tx]

\* the loop over the responses of a reply: it returns at the first error
RECURSIVE ProcessResponses(_, _, _)
ProcessResponses(st, responses, party) ==
    IF responses = <<>> \/ st.err # Nil THEN st
    ELSE ProcessResponses(ProcessResponse(st, Head(responses), party), Tail(responses),
                          party)

\* the party the loop of Call is at
Party(e) == e.parties[Len(e.hist) + 1]

\* a failing return that also discards the responses collected so far
Failed_Rollback(e, party, what, reply, err) ==
    [e EXCEPT !.pc = "returned", !.res = err, !.ret = FALSE, !.tx = <<>>,
              !.hist = Append(@, [party |-> party, what |-> what, reply |-> reply])]

\* return nil, err: hist records the party the call ended at and what ended it
Failed(e, party, what, reply, err) ==
    [e EXCEPT !.pc = "returned", !.res = err, !.ret = FALSE,
              !.hist = Append(@, [party |-> party, what |-> what, reply |-> reply])]

\* the end of an iteration of the loop
Collected(e, party, what, reply, tx) ==
    [e EXCEPT !.pc = "loop", !.tx = tx,
              !.hist = Append(@, [party |-> party, what |-> what, reply |-> reply])]

\* Call from the message of the party to the end of the iteration
CollectReplyStep(e, reply, fnsOk) ==
    LET party == Party(e)
        st == ProcessResponses([tx |-> e.tx, found |-> FALSE, err |-> Nil],
                               reply.responses, party)
        f == [e EXCEPT !.tx = st.tx]
    IN  IF reply.status = "ERROR"
        THEN Failed(e, party, "reply", reply, <<"error reply", party>>)
        ELSE IF ~reply.parsable
        THEN Failed(e, party, "reply", reply, <<"failed unmarshalling response">>)
        ELSE IF ~fnsOk
        THEN Failed(e, party, "fail", reply, <<"fabric network service not found">>)
        ELSE IF st.err # Nil
        THEN Failed(f, party, "reply", reply, st.err)
        ELSE IF ~st.found
        THEN Failed(f, party, "reply", reply, <<"invalid endorsement", party>>)
        ELSE Collected(e, party, "reply", reply, st.tx)

\* Call from the head of the loop to the select, or to the end of the iteration for
\* the local party; fail names the call that returns an error, "none" if none does
CollectPartyStep(e, fail) ==
    LET party == Party(e)
    IN  IF IsMe(party)
        THEN LET a == EndorseWithIdentity(e.tx, party, fail # "endorse")
             IN  IF a.err # Nil
                 THEN Failed(e, party, IF fail = "endorse" THEN "fail" ELSE "local",
                             NoReply, <<"failed endorsing transaction">> \o a.err)
                 ELSE Collected(e, party, "local", NoReply, a.tx)
        ELSE IF fail = "marshal"
        THEN Failed(e, party, "fail", NoReply, <<"failed marshalling transaction content">>)
        ELSE IF fail = "session"
        THEN Failed(e, party, "fail", NoReply, <<"failed getting session">>)
        ELSE IF fail = "send"
        THEN Failed([e EXCEPT !.sessions = Append(@, party)], party, "fail", NoReply,
                    <<"failed sending transaction content">>)
        ELSE [e EXCEPT !.pc = "select", !.sessions = Append(@, party),
                       !.sent = Append(@, party)]

\* a timeout that gives up on the party and goes on with the next one
CollectTimeoutStep_Skip(e) == Collected(e, Party(e), "timeout", NoReply, e.tx)

\* Call on a timeout of the select
CollectTimeoutStep(e) ==
    Failed(e, Party(e), "timeout", NoReply, <<"Timeout from party", Party(e)>>)

\* Call up to the loop: the tracker, the channel and the results of the transaction
CollectBegin(parties) ==
    /\ ec.pc = "idle"
    /\ \E fail \in {"none", "tracker", "channel", "results"} :
        ec' = IF fail = "none"
              THEN [ec EXCEPT !.pc = "loop", !.parties = parties]
              ELSE [ec EXCEPT !.pc = "returned", !.parties = parties,
                              !.res = <<"failed getting", fail>>]
    /\ UNCHANGED <<committerVars, rv, ov, adb, vr, el>>

CollectParty ==
    /\ ec.pc = "loop"
    /\ Len(ec.hist) < Len(ec.parties)
    /\ \E fail \in {"none", "endorse", "marshal", "session", "send"} :
        ec' = CollectPartyStep(ec, fail)
    /\ UNCHANGED <<committerVars, rv, ov, adb, vr, el>>

\* case msg = <-ch
CollectReply ==
    /\ ec.pc = "select"
    /\ \E reply \in Replies, fnsOk \in BOOLEAN : ec' = CollectReplyStep(ec, reply, fnsOk)
    /\ UNCHANGED <<committerVars, rv, ov, adb, vr, el>>

\* case <-time.After(60 * time.Second)
CollectTimeout ==
    /\ ec.pc = "select"
    /\ ec' = CollectTimeoutStep(ec)
    /\ UNCHANGED <<committerVars, rv, ov, adb, vr, el>>

\* return c.tx, nil
CollectReturn ==
    /\ ec.pc = "loop"
    /\ Len(ec.hist) = Len(ec.parties)
    /\ ec' = [ec EXCEPT !.pc = "returned", !.res = Nil, !.ret = TRUE]
    /\ UNCHANGED <<committerVars, rv, ov, adb, vr, el>>

NextEndorse ==
    \/ \E parties \in PartyLists : CollectBegin(parties)
    \/ CollectParty
    \/ CollectReply
    \/ CollectTimeout
    \/ CollectReturn

SpecEndorse == Init /\ [][NextEndorse]_vars

(***************************************************************************)
(* SpecBurst: one caller of IsFinal on A and a notifier that keeps         *)
(* notifying the commit of A, up to MaxBurst times                         *)
(***************************************************************************)
BurstEvent == [Txid |-> "A", Err |-> Nil, DependantTxIDs |-> <<>>]

\* the status oracle while A is not committed in the vault
BusyAnswers == {[vd |-> Busy, deps |-> <<>>, err |-> Nil]}

\* notify called with the event of A
notifyBurst ==
    /\ notified < MaxBurst
    /\ notifyEnter(BurstEvent)
    /\ UNCHANGED <<cm, views>>

NextBurst ==
    \/ IsFinalCall("c1", "A")
    \/ IsFinalStatus("c1", BusyAnswers)
    \/ Return("c1")
    \/ listenToAdd("c1")
    \/ listenToEvent("c1")
    \/ listenToTimeout("c1", BusyAnswers)
    \/ listenToReturn("c1")
    \/ notifyBurst
    \/ notifySend
    \/ notifyUnlock

SpecBurst == Init /\ [][NextBurst]_vars

(***************************************************************************)
(* SpecRunView: childContext.RunView (platform/view/core/manager/wrapper.go)*)
(***************************************************************************)
\* the functions a view registers with OnError: f returns, g panics
Callbacks == {"f", "g"}

\* how the call of the view ends: it returns a result, returns an error, or panics
\* with an error, a string or any other value
Outcomes == {"ok", "err", "panic error", "panic string", "panic value"}

\* the options of RunView: whether CompileRunViewOptions succeeds, whether a view was
\* passed and whether options.Call is set
RunViewOptions == [compiled : BOOLEAN, view : BOOLEAN, call : BOOLEAN]

\* a call of RunView: the child context it made (errorCallbackFuncs), the callbacks
\* cleanup has invoked (ran), the way the view ended and the values to return
NewRun(opts) ==
    [pc |-> IF ~opts.compiled \/ (~opts.view /\ ~opts.call) THEN "ret" ELSE "view",
     errorCallbackFuncs |-> <<>>, ran |-> <<>>, out |-> "none",
     res |-> "nil",
     err |-> IF ~opts.compiled THEN <<"failed compiling options">>
             ELSE IF ~opts.view /\ ~opts.call THEN <<"no view passed">> ELSE Nil]

RunTop == rv.stack[Len(rv.stack)]
SetRunTop(f) == [rv EXCEPT !.stack[Len(rv.stack)] = f]

\* safeInvoke: runs the callback and recovers its panic, if any
safeInvoke(cb) == [f |-> cb, panicked |-> cb = "g"]

\* cleanup that lets the panic of a callback end the loop
RECURSIVE cleanup_StopAtPanic(_)
cleanup_StopAtPanic(callbacks) ==
    IF callbacks = <<>> THEN <<>>
    ELSE IF safeInvoke(Head(callbacks)).panicked THEN <<safeInvoke(Head(callbacks))>>
    ELSE <<safeInvoke(Head(callbacks))>> \o cleanup_StopAtPanic(Tail(callbacks))

\* cleanup: safeInvoke on every registered callback, in order; the value is the
\* sequence of the invocations made
RECURSIVE cleanup(_)
cleanup(callbacks) ==
    IF callbacks = <<>> THEN <<>>
    ELSE <<safeInvoke(Head(callbacks))>> \o cleanup(Tail(callbacks))

\* the function deferred by RunView, and the return: on a recovered panic it runs
\* cleanup, sets res to nil and err by the type of the panic value; otherwise the
\* values of the view are returned as they are
Deferred(f) ==
    IF f.out \in {"panic error", "panic string", "panic value"}
    THEN [f EXCEPT !.pc = "ret", !.ran = cleanup(f.errorCallbackFuncs), !.res = "nil",
                   !.err = IF f.out = "panic string" THEN <<"panic string">>
                           ELSE <<"caught panic", f.out>>]
    ELSE IF f.out = "err"
    THEN [f EXCEPT !.pc = "ret", !.res = "nil", !.err = <<"view error">>]
    ELSE [f EXCEPT !.pc = "ret", !.res = "res", !.err = Nil]

\* RunView is called, by the node or by the view running in the innermost context
RunViewCall(opts) ==
    /\ Len(rv.stack) < MaxNest
    /\ rv.stack # <<>> => RunTop.pc = "view"
    /\ rv' = [rv EXCEPT !.stack = Append(@, NewRun(opts))]
    /\ UNCHANGED <<committerVars, ec, ov, adb, vr, el>>

\* the running view calls context.OnError(f)
OnError(cb) ==
    /\ rv.stack # <<>>
    /\ RunTop.pc = "view"
    /\ Len(RunTop.errorCallbackFuncs) < MaxCallbacks
    /\ rv' = SetRunTop([RunTop EXCEPT !.errorCallbackFuncs = Append(@, cb)])
    /\ UNCHANGED <<committerVars, ec, ov, adb, vr, el>>

\* options.Call(childContext) or v.Call(childContext) ends
ViewEnds(out) ==
    /\ rv.stack # <<>>
    /\ RunTop.pc = "view"
    /\ rv' = SetRunTop([RunTop EXCEPT !.pc = "deferred", !.out = out])
    /\ UNCHANGED <<committerVars, ec, ov, adb, vr, el>>

RunViewDeferred ==
    /\ rv.stack # <<>>
    /\ RunTop.pc = "deferred"
    /\ rv' = SetRunTop(Deferred(RunTop))
    /\ UNCHANGED <<committerVars, ec, ov, adb, vr, el>>

\* RunView returns to its caller: the view of the enclosing context, or the node
RunViewReturn ==
    /\ rv.stack # <<>>
    /\ RunTop.pc = "ret"
    /\ LET r == [res |-> RunTop.res, err |-> RunTop.err]
           rest == SubSeq(rv.stack, 1, Len(rv.stack) - 1)
       IN  rv' = [stack |-> rest, result |-> r]
    /\ UNCHANGED <<committerVars, ec, ov, adb, vr, el>>

NextRunView ==
    \/ \E opts \in RunViewOptions : RunViewCall(opts)
    \/ \E cb \in Callbacks : OnError(cb)
    \/ \E out \in Outcomes : ViewEnds(out)
    \/ RunViewDeferred
    \/ RunViewReturn

SpecRunView == Init /\ [][NextRunView]_vars

(***************************************************************************)
(* SpecOrdering: orderingAndFinalityView.Call (package ttxcc), with the    *)
(* committer behind nw.IsFinal                                             *)
(***************************************************************************)
\* the errors nw.Broadcast can return, nil included
BroadcastErrs == {Nil, <<"broadcast failed">>}

\* Call with IsFinal called whatever Broadcast returned
AfterBroadcast_IgnoreErr(o, err) ==
    [o EXCEPT !.pc = "isfinal", !.calls = Append(@, "Broadcast"), !.berr = err]

\* Call after nw.Broadcast(o.tx.Payload.Envelope) has returned err
AfterBroadcast(o, err) ==
    IF err # Nil
    THEN [o EXCEPT !.pc = "returned", !.calls = Append(@, "Broadcast"), !.berr = err,
                   !.res = err]
    ELSE [o EXCEPT !.pc = "isfinal", !.calls = Append(@, "Broadcast"), !.berr = err]

\* Call is invoked: network.GetInstance finds the network or not
OrderingCall(found) ==
    /\ ov.pc \in {"idle", "returned"}
    /\ stack["c1"] = <<>>
    /\ ov' = IF found
             THEN [NoOrdering EXCEPT !.pc = "broadcast"]
             ELSE [NoOrdering EXCEPT !.pc = "returned", !.found = FALSE,
                                     !.res = <<"network not found">>]
    /\ UNCHANGED <<committerVars, ec, rv, adb, vr, el>>

OrderingBroadcast(err) ==
    /\ ov.pc = "broadcast"
    /\ ov' = AfterBroadcast(ov, err)
    /\ UNCHANGED <<committerVars, ec, rv, adb, vr, el>>

\* nw.IsFinal(o.tx.ID()) is called ...
OrderingIsFinal ==
    /\ ov.pc = "isfinal"
    /\ ov' = [ov EXCEPT !.pc = "waiting", !.calls = Append(@, "IsFinal")]
    /\ UNCHANGED <<committerVars, ec, rv, adb, vr, el>>

\* ... and runs in the committer
OrderingIsFinalCall ==
    /\ ov.pc = "waiting"
    /\ IsFinalCall("c1", "A")

\* return nil, nw.IsFinal(o.tx.ID())
OrderingReturn ==
    /\ ov.pc = "waiting"
    /\ stack["c1"] # <<>>
    /\ Top("c1").pc = "ret"
    /\ ov' = [ov EXCEPT !.pc = "returned", !.res = Top("c1").res]
    /\ UNCHANGED <<committerVars, ec, rv, adb, vr, el>>

OrderingIsFinalReturn ==
    /\ ov.pc = "returned"
    /\ Return("c1")

NextOrdering ==
    \/ \E found \in BOOLEAN : OrderingCall(found)
    \/ \E err \in BroadcastErrs : OrderingBroadcast(err)
    \/ OrderingIsFinal
    \/ OrderingIsFinalCall
    \/ OrderingReturn
    \/ OrderingIsFinalReturn
    \/ IsFinalStatus("c1", LeafAnswers)
    \/ FinalityIsFinal("c1")
    \/ listenToAdd("c1")
    \/ listenToEvent("c1")
    \/ listenToTimeout("c1", LeafAnswers)
    \/ listenToReturn("c1")
    \/ Notifier

SpecOrdering == Init /\ [][NextOrdering]_vars

(***************************************************************************)
(* SpecAuditDB: AuditDB and QueryExecutor (package auditdb)                *)
(***************************************************************************)
\* sync.RWMutex as storeLock uses it
RLockReady_Always(l) == TRUE

\* RLock returns when no writer holds or waits for the lock
RLockReady(l) == l.w = NoThread

RLock(l) == [l EXCEPT !.r = @ + 1]
RUnlock(l) == [l EXCEPT !.r = @ - 1]

\* Lock: first among the writers, then once the read locks are released
LockFree(l) == l.w = NoThread
LockReady(l) == l.r = 0

\* the statuses SetStatus can set
Statuses == {"Confirmed", "Deleted"}

\* the audit record of a request, as far as Append depends on it: whether
\* req.AuditRecord succeeds, how many movements appendSendMovements and
\* appendReceivedMovements add, how many transaction records appendTransactions adds,
\* and whether it then meets an action with more than one input enrollment id
AuditRecords(n) ==
    [valid : BOOLEAN, sends : 0 .. n, recvs : 0 .. n, txs : 0 .. n, inputsOk : BOOLEAN]

\* the driver calls an Append without failure makes before Commit
NumCalls(rec) == 1 + rec.sends + rec.recvs + rec.txs

\* the driver calls made so far by an Append and the error met, if any
NoCalls == [calls |-> <<>>, err |-> Nil]

\* a call of the driver: the failAt-th call of the Append fails, none if failAt is 0
DriverCall(a, name, failAt) ==
    [calls |-> Append(a.calls, name),
     err |-> IF Len(a.calls) + 1 = failAt THEN <<name, "failed">> ELSE Nil]

\* rollback that discards nothing
rollback_Skip(a) == a

\* rollback: db.db.Discard(), whose own error is only logged
rollback(a) == [a EXCEPT !.calls = Append(@, "Discard")]

\* the loops of appendSendMovements, appendReceivedMovements and appendTransactions:
\* n records are added with the driver call name; the first failure discards the
\* update and is returned
RECURSIVE AddRecords(_, _, _, _)
AddRecords(a, name, n, failAt) ==
    IF n = 0 THEN a
    ELSE LET b == DriverCall(a, name, failAt)
         IN  IF b.err # Nil THEN [b EXCEPT !.calls = Append(@, "Discard")]
             ELSE AddRecords(b, name, n - 1, failAt)

\* appendTransactions: the actions before one with several input enrollment ids are
\* added, then the error is returned without a Discard
appendTransactions(a, rec, failAt) ==
    LET b == AddRecords(a, "AddTransaction", rec.txs, failAt)
    IN  IF b.err = Nil /\ ~rec.inputsOk
        THEN [b EXCEPT !.err = <<"expected at most 1 input enrollment id">>]
        ELSE b

\* the body of Append: the driver calls it makes and the error it returns
AppendCalls(rec, failAt) ==
    IF ~rec.valid THEN [NoCalls EXCEPT !.err = <<"failed getting audit records">>]
    ELSE LET a0 == DriverCall(NoCalls, "BeginUpdate", failAt)
             a1 == AddRecords(a0, "AddMovement", rec.sends, failAt)
             a2 == AddRecords(a1, "AddMovement", rec.recvs, failAt)
             a3 == appendTransactions(a2, rec, failAt)
             a4 == DriverCall(a3, "Commit", failAt)
         IN  IF a0.err # Nil THEN rollback(a0)
             ELSE IF a1.err # Nil THEN rollback(a1)
             ELSE IF a2.err # Nil THEN rollback(a2)
             ELSE IF a3.err # Nil THEN rollback(a3)
             ELSE IF a4.err # Nil THEN rollback(a4)
             ELSE a4

\* the records and failures drawn where Append is one of several concurrent calls
FewRecords == {rec \in AuditRecords(1) : rec.sends = 1 /\ rec.recvs = 1 /\ rec.txs = 1}

DbThread(t) == adb.th[t]

\* NewQueryExecutor: db.counter.Inc() ...
NewQueryExecutorInc(t) ==
    /\ DbThread(t).pc = "idle"
    /\ DbThread(t).qe # "open"
    /\ adb' = [adb EXCEPT !.counter = @ + 1, !.th[t].pc = "rlock"]
    /\ UNCHANGED <<committerVars, ec, rv, ov, vr, el>>

\* ... db.storeLock.RLock(); return &QueryExecutor{db: db}
NewQueryExecutorRLock(t) ==
    /\ DbThread(t).pc = "rlock"
    /\ RLockReady(adb.storeLock)
    /\ adb' = [adb EXCEPT !.storeLock = RLock(@), !.th[t].pc = "idle",
                          !.th[t].qe = "open"]
    /\ UNCHANGED <<committerVars, ec, rv, ov, vr, el>>

\* Done without the test of qe.closed
QueryExecutorDone_NoClosedTest(db, t) ==
    [db EXCEPT !.counter = @ - 1, !.storeLock = RUnlock(@), !.th[t].qe = "closed"]

\* the body of Done on the executor of t: nothing if it is closed; otherwise
\* counter.Dec(), storeLock.RUnlock(), closed = true
QueryExecutorDone(db, t) ==
    IF db.th[t].qe = "closed" THEN db
    ELSE [db EXCEPT !.counter = @ - 1, !.storeLock = RUnlock(@), !.th[t].qe = "closed"]

\* QueryExecutor.Done, called by the goroutine that holds the executor
Done(t) ==
    /\ DbThread(t).pc = "idle"
    /\ DbThread(t).qe \in {"open", "closed"}
    /\ adb' = QueryExecutorDone(adb, t)
    /\ UNCHANGED <<committerVars, ec, rv, ov, vr, el>>

\* Append(req): db.storeLock.Lock() is called ...
AppendLock(t, req) ==
    /\ DbThread(t).pc = "idle"
    /\ LockFree(adb.storeLock)
    /\ adb' = [adb EXCEPT !.storeLock.w = t, !.th[t].pc = "lock",
                          !.cur = [op |-> "Append", arg |-> <<req>>],
                          !.calls = <<>>, !.err = Nil]
    /\ UNCHANGED <<committerVars, ec, rv, ov, vr, el>>

\* SetStatus(txID, status): db.storeLock.Lock() is called ...
SetStatusLock(t, txID, status) ==
    /\ DbThread(t).pc = "idle"
    /\ LockFree(adb.storeLock)
    /\ adb' = [adb EXCEPT !.storeLock.w = t, !.th[t].pc = "lock",
                          !.cur = [op |-> "SetStatus", arg |-> <<txID, status>>],
                          !.calls = <<>>, !.err = Nil]
    /\ UNCHANGED <<committerVars, ec, rv, ov, vr, el>>

\* ... and returns
storeLockAcquire(t) ==
    /\ DbThread(t).pc = "lock"
    /\ LockReady(adb.storeLock)
    /\ adb' = [adb EXCEPT !.storeLock.locked = TRUE, !.th[t].pc = "cs"]
    /\ UNCHANGED <<committerVars, ec, rv, ov, vr, el>>

\* the body of Append under the lock: the record is stored, Pending, when every
\* step and Commit succeed; otherwise the update is discarded
AppendBody(t, rec, failAt) ==
    /\ DbThread(t).pc = "cs"
    /\ adb.cur.op = "Append"
    /\ LET a == AppendCalls(rec, failAt)
       IN  adb' = [adb EXCEPT
                     !.calls = a.calls,
                     !.err = a.err,
                     !.cur.arg = <<adb.cur.arg[1], rec, failAt>>,
                     !.store = IF a.err = Nil THEN [@ EXCEPT ![adb.cur.arg[1]] = "Pending"]
                               ELSE @,
                     !.th[t].pc = "unlock"]
    /\ UNCHANGED <<committerVars, ec, rv, ov, vr, el>>

\* the body of SetStatus under the lock
SetStatusBody(t, ok) ==
    /\ DbThread(t).pc = "cs"
    /\ adb.cur.op = "SetStatus"
    /\ adb' = [adb EXCEPT
                 !.calls = IF ok THEN <<"SetStatus">> ELSE <<"SetStatus", "Discard">>,
                 !.store = IF ok /\ @[adb.cur.arg[1]] # "absent"
                           THEN [@ EXCEPT ![adb.cur.arg[1]] = adb.cur.arg[2]]
                           ELSE @,
                 !.th[t].pc = "unlock",
                 !.err = IF ok THEN Nil ELSE <<"failed setting status">>]
    /\ UNCHANGED <<committerVars, ec, rv, ov, vr, el>>

\* defer db.storeLock.Unlock()
storeLockUnlock(t) ==
    /\ DbThread(t).pc = "unlock"
    /\ adb' = [adb EXCEPT !.storeLock.w = NoThread, !.storeLock.locked = FALSE,
                          !.th[t].pc = "idle"]
    /\ UNCHANGED <<committerVars, ec, rv, ov, vr, el>>

NextAuditDB ==
    \E t \in DbThreads :
        \/ NewQueryExecutorInc(t)
        \/ NewQueryExecutorRLock(t)
        \/ Done(t)
        \/ \E req \in Requests : AppendLock(t, req)
        \/ \E txID \in Requests, status \in Statuses : SetStatusLock(t, txID, status)
        \/ storeLockAcquire(t)
        \/ \E rec \in FewRecords : \E failAt \in 0 .. NumCalls(rec) + 1 :
                AppendBody(t, rec, failAt)
        \/ \E ok \in BOOLEAN : SetStatusBody(t, ok)
        \/ storeLockUnlock(t)

SpecAuditDB == Init /\ [][NextAuditDB]_vars

\* Append and SetStatus called by one goroutine, with every audit record of up to
\* MaxMoves records of a kind and every driver call that can fail
NextAppend ==
    \/ \E req \in Requests : AppendLock("t1", req)
    \/ \E txID \in Requests, status \in Statuses : SetStatusLock("t1", txID, status)
    \/ storeLockAcquire("t1")
    \/ \E rec \in AuditRecords(MaxMoves) : \E failAt \in 0 .. NumCalls(rec) + 1 :
            AppendBody("t1", rec, failAt)
    \/ \E ok \in BOOLEAN : SetStatusBody("t1", ok)
    \/ storeLockUnlock("t1")

SpecAppend == Init /\ [][NextAppend]_vars

(***************************************************************************)
(* SpecVerifier: the verifier of a response in collectEndorsementsView.Call *)
(***************************************************************************)
\* what GetVerifier returns: an error, a verifier that accepts the signature of the
\* response or one that rejects it
VerifierAnswers == {"err", "good", "bad"}

\* the k-th provider of c.verifierProviders ("view") or of c.tx.verifierProviders
\* ("tx"), with what its GetVerifier answers for the endorser
Provider(src, k, out) == [src |-> src, k |-> k, out |-> out]
ProviderList(src, outs) == [k \in 1 .. Len(outs) |-> Provider(src, k, outs[k])]

\* vProviders with the providers of the transaction first
vProviders_TxFirst(viewProviders, txProviders) == txProviders \o viewProviders

\* vProviders = append(append(nil, c.verifierProviders...), c.tx.verifierProviders...)
vProviders(viewProviders, txProviders) == viewProviders \o txProviders

\* the check a response fails given how its verifier was resolved, "ok" if none
CheckOf(v) ==
    IF v.verifier = "none" THEN "noverifier"
    ELSE IF v.verifier = "bad" THEN "badsig"
    ELSE IF ~v.same THEN "diff"
    ELSE "ok"

\* the loop body starts on a response signed by b, sent by party B
VerifierCall(msp, viewOuts, txOuts, same) ==
    /\ vr.pc = "idle"
    /\ vr' = [NoResolution EXCEPT
                !.pc = "msp", !.msp = msp, !.same = same,
                !.providers = vProviders(ProviderList("view", viewOuts),
                                         ProviderList("tx", txOuts))]
    /\ UNCHANGED <<committerVars, ec, rv, ov, adb, el>>

\* verifier, err := mspManager.GetVerifier(endorser)
AskMSP ==
    /\ vr.pc = "msp"
    /\ vr' = IF vr.msp # "err"
             THEN [vr EXCEPT !.pc = "verify", !.asked = Append(@, "msp"),
                             !.verifier = vr.msp]
             ELSE [vr EXCEPT !.pc = "providers", !.asked = Append(@, "msp"), !.i = 1]
    /\ UNCHANGED <<committerVars, ec, rv, ov, adb, el>>

\* one iteration of the loop over vProviders
AskProvider ==
    /\ vr.pc = "providers"
    /\ vr.i <= Len(vr.providers)
    /\ LET p == vr.providers[vr.i]
       IN  vr' = IF p.out # "err"
                 THEN [vr EXCEPT !.pc = "verify", !.asked = Append(@, <<p.src, p.k>>),
                                 !.verifier = p.out]
                 ELSE [vr EXCEPT !.i = @ + 1, !.asked = Append(@, <<p.src, p.k>>)]
    /\ UNCHANGED <<committerVars, ec, rv, ov, adb, el>>

\* if !foundVerifier: return nil, "failed getting verifier for party"
NoVerifier ==
    /\ vr.pc = "providers"
    /\ vr.i > Len(vr.providers)
    /\ vr' = [vr EXCEPT !.pc = "done",
                        !.st = ProcessResponse(@, [endorser |-> "b", check |-> CheckOf(vr)],
                                               "B")]
    /\ UNCHANGED <<committerVars, ec, rv, ov, adb, el>>

\* verifier.Verify, the comparison of the results and AppendProposalResponse
VerifyAndAppend ==
    /\ vr.pc = "verify"
    /\ vr' = [vr EXCEPT !.pc = "done",
                        !.st = ProcessResponse(@, [endorser |-> "b", check |-> CheckOf(vr)],
                                               "B")]
    /\ UNCHANGED <<committerVars, ec, rv, ov, adb, el>>

NextVerifier ==
    \/ \E msp \in VerifierAnswers, same \in BOOLEAN,
          viewOuts, txOuts \in SeqUpTo(VerifierAnswers, MaxProviders) :
            VerifierCall(msp, viewOuts, txOuts, same)
    \/ AskMSP
    \/ AskProvider
    \/ NoVerifier
    \/ VerifyAndAppend

SpecVerifier == Init /\ [][NextVerifier]_vars

(***************************************************************************)
(* SpecWindow: notify called while IsFinal is between its Status query and *)
(* the addListener of listenTo                                             *)
(***************************************************************************)
\* the call of c1 has read Busy without dependencies and has not yet registered
InWindow == stack["c1"] # <<>> /\ Top("c1").pc = "listenTo"

\* notify is called, by a thread other than Commit, with an event for the transaction
\* c1 asks about, while the call of c1 is in the window
notifyWindow(event) ==
    /\ InWindow
    /\ event.Txid = Top("c1").txid
    /\ notifyLock(event)

NextWindow ==
    \/ \E c \in Callers : IsFinalCall(c, "A")
    \/ \E c \in Callers : IsFinalStatus(c, LeafAnswers)
    \/ \E c \in Callers : Return(c)
    \/ \E c \in Callers : FinalityIsFinal(c)
    \/ \E c \in Callers : listenToAdd(c)
    \/ \E c \in Callers : listenToEvent(c)
    \/ \E c \in Callers : listenToTimeout(c, LeafAnswers)
    \/ \E c \in Callers : listenToReturn(c)
    \/ \E event \in Events : notifyWindow(event)
    \/ notifySend
    \/ notifyUnlock

SpecWindow == Init /\ [][NextWindow]_vars

(***************************************************************************)
(* SpecLocks: AuditDB.AcquireLocks and AuditDB.Unlock                      *)
(***************************************************************************)
\* deduplicate: the first occurrence of every entry, in the order of the slice
RECURSIVE deduplicate(_)
deduplicate(source) ==
    IF source = <<>> THEN <<>>
    ELSE LET res == deduplicate(SubSeq(source, 1, Len(source) - 1))
             item == source[Len(source)]
         IN  IF \E k \in 1 .. Len(res) : res[k] = item THEN res ELSE Append(res, item)

LockCaller(u) == el.th[u]

\* AcquireLocks(eIDs...) is called
AcquireLocksCall(u, eIDs) ==
    /\ LockCaller(u).pc = "idle"
    /\ el' = [el EXCEPT !.th[u] =
                IF deduplicate(eIDs) = <<>>
                THEN [pc |-> "held", ids |-> <<>>, i |-> 0]
                ELSE [pc |-> "acquire", ids |-> deduplicate(eIDs), i |-> 1]]
    /\ UNCHANGED <<committerVars, ec, rv, ov, adb, vr>>

\* one iteration of the loop: LoadOrStore, then Lock, which waits while the lock of
\* the id is held
AcquireLocksStep(u) ==
    /\ LockCaller(u).pc = "acquire"
    /\ LET id == LockCaller(u).ids[LockCaller(u).i]
       IN  /\ el.holder[id] = NoThread
           /\ el' = [el EXCEPT
                       !.stored = @ \cup {id},
                       !.holder[id] = u,
                       !.th[u].i = @ + 1,
                       !.th[u].pc = IF LockCaller(u).i = Len(LockCaller(u).ids)
                                    THEN "held" ELSE "acquire"]
    /\ UNCHANGED <<committerVars, ec, rv, ov, adb, vr>>

\* Unlock(eIDs...) with the ids the caller acquired
UnlockCall(u) ==
    /\ LockCaller(u).pc = "held"
    /\ el' = [el EXCEPT
                !.holder = [id \in EIDs |-> IF @[id] = u THEN NoThread ELSE @[id]],
                !.th[u] = [pc |-> "idle", ids |-> <<>>, i |-> 0]]
    /\ UNCHANGED <<committerVars, ec, rv, ov, adb, vr>>

NextLocks ==
    \E u \in LockCallers :
        \/ \E eIDs \in SeqUpTo(EIDs, MaxIds) : AcquireLocksCall(u, eIDs)
        \/ AcquireLocksStep(u)
        \/ UnlockCall(u)

SpecLocks == Init /\ [][NextLocks]_vars

(***************************************************************************)
(* Claims                                                                  *)
(***************************************************************************)
Frames(c) == {stack[c][d] : d \in 1 .. Len(stack[c])}
Returning(f) == f.pc \in {"defer", "ret"}
Chans(l) == {l[j] : j \in 1 .. Len(l)}
\* number of times ch is registered under txid
CountUnder(txid, ch) ==
    Cardinality({j \in 1 .. Len(Lookup(listeners, txid)) : listeners[txid][j] = ch})

\* C1: a call whose last Status answer is Invalid (without an oracle error), on the
\* first query or on the query after the timeout, returns a non-nil error
C1_InvalidNeverSuccess ==
    \A c \in Callers : \A f \in Frames(c) :
        (Returning(f) /\ f.nq >= 1 /\ f.err = Nil /\ f.vd = Invalid) => f.res # Nil

C1_Witness ==
    /\ stack["c1"] # <<>> /\ Top("c1").pc = "ret" /\ Top("c1").nq = 1
    /\ Top("c1").vd = Invalid /\ Top("c1").res = <<"not valid", Top("c1").txid>>
    /\ stack["c2"] # <<>> /\ Top("c2").pc = "ret" /\ Top("c2").nq = 2
    /\ Top("c2").vd = Invalid /\ Top("c2").res = <<"not valid", Top("c2").txid>>

\* C2: every registered channel belongs to a listenTo call that has not returned and
\* is registered under that call's txid; such a call's channel is registered exactly
\* once until its deferred deleteListener has run, and not at all afterwards
C2_RemovedOnReturn ==
    /\ \A k \in DOMAIN listeners : \A ch \in Chans(listeners[k]) :
            \E c \in Callers : \E f \in Frames(c) :
                f.pc \in {"select", "defer"} /\ f.ch = ch /\ f.txid = k
    /\ \A c \in Callers : \A f \in Frames(c) :
            f.pc \in {"select", "defer"} =>
                /\ CountUnder(f.txid, f.ch) = 1
                /\ \A k \in DOMAIN listeners : k # f.txid => f.ch \notin Chans(listeners[k])

C2_Witness ==
    /\ stack["c1"] # <<>> /\ Top("c1").pc = "ret" /\ Top("c1").ch # NoChan
    /\ Top("c1").res = <<"no committer">>
    /\ stack["c2"] # <<>> /\ Top("c2").pc = "ret" /\ Top("c2").recv
    /\ \A k \in DOMAIN listeners : listeners[k] = <<>>
    /\ "A" \in DOMAIN listeners /\ "B" \in DOMAIN listeners

\* C3: no channel appears twice in the list registered under a txid
C3_NoDuplicate ==
    \A k \in DOMAIN listeners : \A i, j \in 1 .. Len(listeners[k]) :
        listeners[k][i] = listeners[k][j] => i = j

C3_Witness ==
    /\ "A" \in DOMAIN listeners /\ Len(listeners["A"]) = 2
    /\ \A c \in Callers : stack[c] # <<>> /\ Top(c).pc = "select" /\ Top(c).txid = "A"

\* notify has made all its sends and has not yet unlocked
NotifyDone == nf.pc = "send" /\ nf.k = Len(nf.targets)
\* the channels notify has sent to so far
Sent == {nf.targets[j] : j \in 1 .. nf.k}
\* the event notify sent to ch is the newest in its buffer, or the listener holding
\* ch has taken it as the only event that was in the buffer
Delivered(ch) ==
    \/ chans[ch] # <<>> /\ chans[ch][Len(chans[ch])] = nf.event
    \/ /\ chans[ch] = <<>>
       /\ \E c \in Callers : \E f \in Frames(c) :
            f.pc = "defer" /\ f.ch = ch /\ f.recv /\ f.got = nf.event

\* C4: when notify has made its sends, every channel registered under event.Txid,
\* the same channels as when it took the mutex, has been sent the event
C4_FanOut ==
    /\ nf.pc = "send" =>
            /\ mutex = "notify"
            /\ Len(nf.targets) >= Len(Lookup(listeners, nf.event.Txid))
            /\ SubSeq(nf.targets, 1, Len(Lookup(listeners, nf.event.Txid)))
                    = Lookup(listeners, nf.event.Txid)
    /\ NotifyDone =>
            \A ch \in Chans(Lookup(listeners, nf.event.Txid)) : ch \in Sent /\ Delivered(ch)

C4_Witness ==
    /\ NotifyDone
    /\ nf.event.Txid = "A"
    /\ Len(Lookup(listeners, "A")) = 2
    /\ \A ch \in Chans(listeners["A"]) : chans[ch] = <<nf.event>>

\* C5: after deleteListener(txid, ch) on a registry where ch is registered under
\* txid, the list under txid is the old one without its first ch, in the same order,
\* and every other list is as before; otherwise the registry is as before
FirstAt(l, ch, i) == i \in 1 .. Len(l) /\ l[i] = ch /\ \A j \in 1 .. (i - 1) : l[j] # ch
C5_DeleteFrame ==
    op.name = "deleteListener" =>
        LET old == Lookup(op.before, op.txid)
        IN  IF op.txid \in DOMAIN op.before /\ op.ch \in Chans(old)
            THEN /\ DOMAIN listeners = DOMAIN op.before
                 /\ \A k \in DOMAIN listeners : k # op.txid => listeners[k] = op.before[k]
                 /\ Len(listeners[op.txid]) = Len(old) - 1
                 /\ \E i \in 1 .. Len(old) :
                        /\ FirstAt(old, op.ch, i)
                        /\ \A j \in 1 .. (i - 1) : listeners[op.txid][j] = old[j]
                        /\ \A j \in i .. (Len(old) - 1) : listeners[op.txid][j] = old[j + 1]
            ELSE listeners = op.before

C5_Witness ==
    /\ op.name = "deleteListener" /\ op.txid = "A" /\ op.ch = 2
    /\ DOMAIN op.before = {"A", "B"}
    /\ op.before["A"] = <<1, 2>> /\ op.before["B"] = <<3>>
    /\ listeners["A"] = <<1>> /\ listeners["B"] = <<3>>

\* C6: notify sends only while it holds the mutex; when it has made its sends, every
\* channel registered under event.Txid or under an id of event.DependantTxIDs has
\* been sent the event and no other channel has; a listener that took an event holds
\* the event of its own txid or of a txid it is a dependant of, and returns its Err
NotifiedIds(event) == {event.Txid} \cup Chans(event.DependantTxIDs)
C6_Dependants ==
    /\ nf.pc = "send" => mutex = "notify"
    /\ NotifyDone =>
            /\ \A id \in NotifiedIds(nf.event) : \A ch \in Chans(Lookup(listeners, id)) :
                    ch \in Sent /\ Delivered(ch)
            /\ \A ch \in Sent : \E id \in NotifiedIds(nf.event) :
                    ch \in Chans(Lookup(listeners, id))
    /\ \A c \in Callers : \A f \in Frames(c) :
            f.recv => f.txid \in NotifiedIds(f.got) /\ f.res = f.got.Err

C6_Witness ==
    /\ NotifyDone
    /\ nf.event = [Txid |-> "A", Err |-> <<"invalid tx">>, DependantTxIDs |-> <<"B">>]
    /\ stack["c1"] # <<>> /\ Top("c1").txid = "A" /\ Top("c1").pc = "select"
    /\ chans[Top("c1").ch] = <<nf.event>>
    /\ stack["c2"] # <<>> /\ Top("c2").txid = "B" /\ Top("c2").pc = "defer"
    /\ Top("c2").got = nf.event /\ Top("c2").res = <<"invalid tx">>

\* the call below the running call of c: the one in whose loop over deps it was made
Parent(c) == stack[c][Len(stack[c]) - 1]
\* a dependency's call is about to return r into the loop of its parent
DepReturns(c) == Len(stack[c]) >= 2 /\ Top(c).pc = "ret" /\ stack'[c] # stack[c]

\* every call below the running one is in its loop over deps, entered on Busy or
\* HasDependencies, and the call above it is the call for deps[i]
InDepsOrder ==
    \A c \in Callers : \A d \in 1 .. (Len(stack[c]) - 1) :
        /\ stack[c][d].pc = "deps"
        /\ stack[c][d].vd \in {Busy, HasDependencies}
        /\ stack[c][d].i \in 1 .. Len(stack[c][d].deps)
        /\ stack[c][d + 1].txid = stack[c][d].deps[stack[c][d].i]

\* the steps of the loop over deps: the first call is for deps[1]; a dependency
\* returning an error makes the parent return that error, unchanged otherwise; a
\* dependency returning nil is followed by the call for the next one
C7_Step ==
    \A c \in Callers :
        /\ (stack[c] # <<>> /\ Top(c).pc = "query" /\ Len(stack'[c]) = Len(stack[c]) + 1)
                => stack'[c][Len(stack[c])].i = 1
        /\ (DepReturns(c) /\ Top(c).res # Nil) =>
                /\ Len(stack'[c]) = Len(stack[c]) - 1
                /\ stack'[c][Len(stack'[c])] =
                        [Parent(c) EXCEPT !.pc = "ret", !.res = Top(c).res]
        /\ (DepReturns(c) /\ Top(c).res = Nil /\ Parent(c).i < Len(Parent(c).deps)) =>
                /\ Len(stack'[c]) = Len(stack[c])
                /\ stack'[c][Len(stack[c]) - 1] = [Parent(c) EXCEPT !.i = Parent(c).i + 1]
                /\ stack'[c][Len(stack[c])].pc = "query"
\* C7: dependencies are resolved in list order, and a dependency returning an error
\* makes the parent return that error at once, with no further call of IsFinal, no
\* Status query and no subscription for a later dependency
C7_FailFast == []InDepsOrder /\ [][C7_Step]_vars

C7_Witness ==
    /\ Len(stack["c1"]) = 1 /\ Top("c1").pc = "ret" /\ Top("c1").txid = "A"
    /\ Top("c1").vd = Busy /\ Top("c1").deps = <<"B", "C">> /\ Top("c1").i = 1
    /\ Top("c1").res = <<"not valid", "B">>
    /\ Top("c1").nq = 1 /\ Top("c1").ch = NoChan

\* a call that was given dependencies is in its loop or returning, has made one
\* Status query and has no channel
C8_Inv ==
    \A c \in Callers : \A f \in Frames(c) :
        Len(f.deps) # 0 =>
            /\ f.pc \in {"deps", "ret"}
            /\ f.nq = 1 /\ f.ch = NoChan /\ ~f.recv
\* the last dependency returning nil makes the parent return nil, unchanged otherwise
C8_Step ==
    \A c \in Callers :
        (DepReturns(c) /\ Top(c).res = Nil /\ Parent(c).i = Len(Parent(c).deps)) =>
            /\ Len(stack'[c]) = Len(stack[c]) - 1
            /\ stack'[c][Len(stack'[c])] = [Parent(c) EXCEPT !.pc = "ret", !.res = Nil]
\* C8: a call that was given dependencies makes one Status query, never subscribes
\* and never asks the finality service; when its last dependency returns nil it
\* returns nil at once
C8_DepsSuccess == []C8_Inv /\ [][C8_Step]_vars

C8_Witness ==
    /\ Len(stack["c1"]) = 1 /\ Top("c1").pc = "ret" /\ Top("c1").txid = "A"
    /\ Top("c1").vd = HasDependencies /\ Top("c1").deps = <<"B", "C">> /\ Top("c1").i = 2
    /\ Top("c1").res = Nil /\ Top("c1").nq = 1 /\ Top("c1").ch = NoChan
    /\ listeners = [k \in {"B", "C"} |-> <<>>]

\* the call's first Status answer, while it is the only one it has
FirstAnswer(f, vds) == f.nq = 1 /\ f.err = Nil /\ f.deps = <<>> /\ f.vd \in vds
Subscribed(f) == f.pc \in {"select", "defer"} /\ CountUnder(f.txid, f.ch) = 1

\* C9 as stated: after the answer Unknown, or HasDependencies without dependencies,
\* the call is on its way into listenTo or has subscribed its channel under txid
C9_UnknownListens ==
    \A c \in Callers : \A f \in Frames(c) :
        FirstAnswer(f, {Unknown, HasDependencies}) =>
            \/ f.pc = "listenTo"
            \/ Subscribed(f)
            \/ f.pc = "ret" /\ f.ch # NoChan

\* C9 amended: it is the answer Busy without dependencies that leads into listenTo,
\* where the call subscribes its channel under txid and waits; after Unknown, or
\* HasDependencies without dependencies, the call never subscribes: it asks the
\* finality service and returns its answer
C9_BusyListens ==
    \A c \in Callers : \A f \in Frames(c) :
        /\ FirstAnswer(f, {Busy}) =>
                \/ f.pc = "listenTo" /\ f.ch = NoChan
                \/ Subscribed(f)
                \/ f.pc = "ret" /\ f.ch # NoChan
        /\ FirstAnswer(f, {Unknown, HasDependencies}) =>
                /\ f.pc \in {"finality", "ret"}
                /\ f.ch = NoChan /\ ~f.recv
                /\ f.res \in {Nil, <<"finality">>}

C9_Witness ==
    /\ stack["c1"] # <<>> /\ FirstAnswer(Top("c1"), {Busy}) /\ Top("c1").pc = "select"
    /\ listeners[Top("c1").txid] = <<Top("c1").ch>>
    /\ stack["c2"] # <<>> /\ FirstAnswer(Top("c2"), {Unknown}) /\ Top("c2").pc = "ret"
    /\ Top("c2").txid = Top("c1").txid /\ Top("c2").res = <<"finality">>

\* C10: a call that took an event from its channel returns that event's Err and has
\* made no Status query beyond the first
C10_EventErr ==
    \A c \in Callers : \A f \in Frames(c) :
        f.recv => Returning(f) /\ f.res = f.got.Err /\ f.nq = 1

C10_Witness ==
    /\ stack["c1"] # <<>> /\ Top("c1").pc = "ret" /\ Top("c1").recv
    /\ Top("c1").got.Err = <<"invalid tx">> /\ Top("c1").res = <<"invalid tx">>
    /\ stack["c2"] # <<>> /\ Top("c2").pc = "ret" /\ Top("c2").recv
    /\ Top("c2").got.Err = Nil /\ Top("c2").res = Nil

\* a call of listenTo whose wait ended by the timeout, no event taken
TimedOut(f) == f.ch # NoChan /\ ~f.recv /\ Returning(f)

\* the result of listenTo after the timeout, by the answer of the query it then made
TimeoutResult(f) ==
    /\ f.nq = 2
    /\ f.err = Nil /\ f.vd = Valid => f.res = Nil
    /\ f.err = Nil /\ f.vd = Invalid => f.res # Nil /\ f.res[1] # "timeout"
    /\ f.err # Nil \/ f.vd \in {Busy, HasDependencies, Unknown} =>
            f.res = <<"timeout", f.txid>> \o f.err \o <<f.vd>>

\* a call that has queried a second time is the innermost one, has entered no loop
\* over dependencies and is not waiting again
NoSecondWait ==
    \A c \in Callers : \A d \in 1 .. Len(stack[c]) :
        stack[c][d].nq = 2 =>
            /\ d = Len(stack[c])
            /\ TimedOut(stack[c][d])
            /\ stack[c][d].i = 0 /\ stack[c][d].deps = <<>>

\* C11 as stated: every call of listenTo that timed out has made exactly one more
\* Status query and returns by its answer: nil for Valid, an error for Invalid, the
\* timeout error for everything else
C11_TimeoutRequeries ==
    /\ NoSecondWait
    /\ \A c \in Callers : \A f \in Frames(c) : TimedOut(f) => TimeoutResult(f)

\* C11: a call of listenTo that timed out either could not obtain the committer and
\* returns that error without a further Status query, or has made exactly one more
\* Status query and returns nil for Valid, an error for Invalid and the timeout error
\* naming the last answer for everything else; it resolves no dependency and does not
\* wait again
C11_TimeoutStatus ==
    /\ NoSecondWait
    /\ \A c \in Callers : \A f \in Frames(c) :
        TimedOut(f) =>
            \/ f.nq = 1 /\ f.res = <<"no committer">>
            \/ TimeoutResult(f)

C11_Witness ==
    /\ Len(stack["c1"]) = 2 /\ Top("c1").pc = "ret" /\ TimedOut(Top("c1"))
    /\ Top("c1").nq = 2 /\ Top("c1").err = <<"qscc">>
    /\ Top("c1").res = <<"timeout", Top("c1").txid, "qscc", Unknown>>

\* C12: a call whose first Status query failed returns an error that carries the
\* oracle's error, without having made a channel, subscribed it or entered the loop
\* over dependencies
C12_OracleError ==
    \A c \in Callers : \A f \in Frames(c) :
        f.nq = 1 /\ f.err # Nil =>
            /\ f.pc = "ret"
            /\ f.res = <<"vault", f.txid>> \o f.err
            /\ f.ch = NoChan /\ ~f.recv /\ f.i = 0
            /\ \A k \in DOMAIN listeners : CountUnder(k, f.ch) = 0

C12_Witness ==
    /\ Len(stack["c1"]) = 2 /\ Top("c1").pc = "ret" /\ Top("c1").nq = 1
    /\ Top("c1").res = <<"vault", Top("c1").txid, "qscc">>
    /\ stack["c1"][1].pc = "deps"

\* a call whose Status query answered Valid
ValidCall(f) == f.nq = 1 /\ f.err = Nil /\ f.vd = Valid

\* a call answered Valid returns nil at once and has no channel
C13_Inv ==
    \A c \in Callers : \A f \in Frames(c) :
        ValidCall(f) => f.pc = "ret" /\ f.res = Nil /\ f.ch = NoChan /\ ~f.recv

\* a step of a call answered Valid, from the answer to the return, leaves the registry
\* and the channels as they are
C13_Step ==
    \A c \in Callers :
        /\ stack'[c] # stack[c]
        /\ \/ stack[c] # <<>> /\ ValidCall(Top(c))
           \/ stack'[c] # <<>> /\ ValidCall(stack'[c][Len(stack'[c])])
        => listeners' = listeners /\ chans' = chans

\* C13: IsFinal on a transaction whose status is Valid returns nil every time, and the
\* listener registry is the same before and after the call
C13_ValidIdempotent == []C13_Inv /\ [][C13_Step]_vars

C13_Witness ==
    /\ stack["c1"] # <<>> /\ ValidCall(Top("c1")) /\ Top("c1").pc = "ret"
    /\ stack["c2"] # <<>> /\ Top("c2").pc = "select"
    /\ Top("c2").txid = Top("c1").txid
    /\ listeners[Top("c2").txid] = <<Top("c2").ch>>

\* C14: IsFinal tracks the ids it has visited: no call of IsFinal is made for an id
\* whose own call is still running further down the same stack, the call fails with a
\* dependency-cycle error instead
C14_CycleGuard ==
    \A c \in Callers : \A d, e \in 1 .. Len(stack[c]) :
        d < e => stack[c][d].txid # stack[c][e].txid

\* every transaction the loop of Commit has reached is a well-formed endorser
\* transaction, and the metadata holds the validation codes
EndorserBlock ==
    /\ cm.pc # "idle"
    /\ cm.mlen > TRANSACTIONS_FILTER
    /\ \A j \in 1 .. Len(cm.txs) :
        cm.txs[j].type = HeaderType_ENDORSER_TRANSACTION /\ cm.txs[j].bad = "none"

\* C15: on a block of n well-formed endorser transactions with validation codes,
\* Commit calls notify once after each transaction, in block order, so n times by its
\* return, and the i-th event carries the id of the i-th transaction and a nil Err
\* exactly when its validation code is VALID
C15_NotifyEach ==
    EndorserBlock =>
        /\ cm.pc \in {"loop", "notify", "notifying", "returned"}
        /\ Len(cm.notes) = IF cm.pc = "notify" THEN Len(cm.txs) - 1 ELSE Len(cm.txs)
        /\ notified = Len(cm.notes)
        /\ \A j \in 1 .. Len(cm.notes) :
            /\ cm.notes[j].event.Txid = cm.txs[j].txid
            /\ cm.notes[j].event.Err = Nil <=> cm.txs[j].code = TxValidationCode_VALID
        /\ cm.pc = "returned" => cm.res = Nil /\ Len(cm.notes) = cm.n

C15_Witness ==
    /\ EndorserBlock /\ cm.pc = "returned" /\ cm.n = 3
    /\ cm.txs[1].code = TxValidationCode_VALID
    /\ cm.txs[2].code # TxValidationCode_VALID
    /\ cm.txs[3].code = TxValidationCode_VALID
    /\ cm.notes[1].event.Err = Nil /\ cm.notes[2].event.Err # Nil
    /\ cm.notes[3].event.Err = Nil /\ cm.notes[3].targets = 1

\* C16: for every metadata length that does not include the entry at
\* TRANSACTIONS_FILTER, Commit returns the error "block metadata lacks transaction
\* filter" on reaching an endorser transaction, which it neither handles nor notifies
C16_MissingFilterIsError ==
    \A j \in 1 .. Len(cm.txs) :
        /\ cm.pc # "idle"
        /\ cm.txs[j].type = HeaderType_ENDORSER_TRANSACTION /\ cm.txs[j].bad = "none"
        /\ cm.mlen <= TRANSACTIONS_FILTER
        => /\ j = Len(cm.txs)
           /\ cm.pc = "returned"
           /\ cm.res = <<"block metadata lacks transaction filter">>
           /\ \A k \in 1 .. Len(cm.applied) : cm.applied[k].i # j
           /\ Len(cm.notes) < j

\* C17: a well-formed transaction of an unhandled header type makes Commit neither
\* return an error nor stop; notify is called for it with the empty event, which is
\* sent to no channel; nothing is handed to the ledger for it; and the loop goes on
C17_UnhandledSkipped ==
    \A j \in 1 .. Len(cm.txs) :
        cm.txs[j].type = HeaderType_MESSAGE /\ cm.txs[j].bad = "none" =>
            /\ j = Len(cm.txs) =>
                /\ cm.pc \in {"notify", "notifying", "loop", "returned"}
                /\ cm.pc = "notify" => cm.event = NoEvent /\ Len(cm.notes) = j - 1
                /\ cm.pc = "notifying" /\ nf.pc = "send" => nf.targets = <<>>
                /\ cm.pc = "returned" => cm.res = Nil
            /\ j <= Len(cm.notes) =>
                cm.notes[j].event.Txid = "" /\ cm.notes[j].targets = 0
            /\ \A k \in 1 .. Len(cm.applied) : cm.applied[k].i # j
            /\ cm.calls = <<>>

C17_Witness ==
    /\ cm.pc = "returned" /\ cm.n = 2 /\ Len(cm.notes) = 2
    /\ cm.txs[1].type = HeaderType_MESSAGE
    /\ cm.txs[2].type = HeaderType_ENDORSER_TRANSACTION
    /\ cm.notes[1] = [event |-> NoEvent, targets |-> 0]
    /\ cm.notes[2].event.Txid = "A" /\ cm.notes[2].targets = 1
    /\ stack["c1"] # <<>> /\ Top("c1").pc = "select"

\* C18: when Commit has returned an error, no transaction of the block has been
\* handed to the ledger and no event of the block has been sent to a listener
C18_NoPartialState ==
    cm.pc = "returned" /\ cm.res # Nil =>
        /\ cm.applied = <<>>
        /\ \A j \in 1 .. Len(cm.notes) : cm.notes[j].targets = 0

\* a thread stopped by logger.Panicf does nothing more: no transaction is reached,
\* notify is not called, Commit does not return
Stopped == cm.pc = "panic" => cm' = cm /\ notified' = notified /\ nf' = nf

\* a configuration transaction in a block that does not hold exactly one transaction
\* stops the thread where it stands, before any call of CommitConfig
C19_Inv ==
    \A j \in 1 .. Len(cm.txs) :
        cm.txs[j].type = HeaderType_CONFIG /\ cm.txs[j].bad = "none" /\ cm.n # 1 =>
            /\ cm.pc = "panic"
            /\ j = Len(cm.txs)
            /\ Len(cm.notes) < j
            /\ \A k \in 1 .. Len(cm.calls) : cm.calls[k].call # "CommitConfig"

\* C19: a configuration transaction in a block whose number of transactions is not
\* one is fatal: CommitConfig is never called for the block and no later transaction
\* is handled or notified
C19_ConfigBlockFatal == []C19_Inv /\ [][Stopped]_vars

C19_Witness ==
    /\ cm.pc = "panic" /\ cm.n = 3 /\ Len(cm.txs) = 2
    /\ cm.txs[2].type = HeaderType_CONFIG /\ cm.txs[2].code = TxValidationCode_VALID
    /\ cm.why = "Config block should contain only one transaction"
    /\ Len(cm.notes) = 1 /\ cm.calls = <<>>

\* a failed call of handleConfig on the network is the last thing the thread has done
C20_Inv ==
    \A k \in 1 .. Len(cm.calls) :
        ~cm.calls[k].ok =>
            /\ k = Len(cm.calls)
            /\ cm.pc = "panic"
            /\ Len(cm.notes) < Len(cm.txs)

\* C20: when CommitConfig, the committer lookup or the ledger lookup fails in
\* handleConfig, the thread stops fatally: Commit does not return, calls notify no
\* more and reaches no further transaction
C20_ConfigFailureFatal == []C20_Inv /\ [][cm.calls # <<>> => (Stopped)]_vars

C20_Witness ==
    /\ cm.pc = "panic" /\ cm.n = 1 /\ Len(cm.txs) = 1 /\ cm.mlen > TRANSACTIONS_FILTER
    /\ cm.calls = <<Call("Committer", TRUE), Call("CommitConfig", FALSE)>>
    /\ cm.notes = <<>> /\ notified = 0

\* the responses of the reply hist entry h holds
ReplyResponses(h) == h.reply.responses

\* every response of the reply passed the checks of the loop, and one of them is
\* signed by an identity bound to the party
VerifiedReply(h) ==
    /\ h.what = "reply" /\ h.reply.status = "OK" /\ h.reply.parsable
    /\ \A j \in 1 .. Len(ReplyResponses(h)) : ReplyResponses(h)[j].check = "ok"
    /\ \E j \in 1 .. Len(ReplyResponses(h)) :
        IsBoundTo(ReplyResponses(h)[j].endorser, h.party)

\* the identities whose endorsements the parties of hist offered, in order
RECURSIVE Offered(_)
Offered(hist) ==
    IF hist = <<>> THEN <<>>
    ELSE LET h == hist[Len(hist)]
         IN  Offered(SubSeq(hist, 1, Len(hist) - 1)) \o
                (IF h.what = "local" THEN <<h.party>>
                 ELSE [j \in 1 .. Len(ReplyResponses(h)) |-> ReplyResponses(h)[j].endorser])

NoRepeat(seq) == \A i, j \in 1 .. Len(seq) : i < j => seq[i] # seq[j]

IsPrefix(a, b) == Len(a) <= Len(b) /\ SubSeq(b, 1, Len(a)) = a

\* C21 as stated: a call that succeeded had, from every remote party, a reply of
\* exactly one response, and that one verified
C21_ExactlyOne ==
    ec.pc = "returned" /\ ec.res = Nil =>
        \A k \in 1 .. Len(ec.hist) :
            ~IsMe(ec.hist[k].party) =>
                VerifiedReply(ec.hist[k]) /\ Len(ReplyResponses(ec.hist[k])) = 1

\* C21: Call succeeds iff it got through the whole list with every local party
\* endorsed in-process and, from every remote party, a reply of one or more responses
\* that all verify (signature valid, results equal to the local ones), one of them
\* bound to the party, and no identity endorsing twice; it then returns the
\* transaction with exactly these endorsements
C21_AllVerified ==
    ec.pc = "returned" =>
        /\ ec.res = Nil <=>
            /\ Len(ec.hist) = Len(ec.parties) /\ Len(ec.parties) > 0
            /\ \A k \in 1 .. Len(ec.hist) :
                \/ ec.hist[k].what = "local"
                \/ VerifiedReply(ec.hist[k])
            /\ NoRepeat(Offered(ec.hist))
        /\ ec.res = Nil => ec.ret /\ ec.tx = Offered(ec.hist)

C21_Witness ==
    /\ ec.pc = "returned" /\ ec.res = Nil /\ ec.parties = <<"me", "B">>
    /\ Len(ReplyResponses(ec.hist[2])) = 2
    /\ ec.tx = <<"me", "x", "b">>

\* C22: the step that takes a reply holding a response signed by an identity not bound
\* to the party ends the call with the invalid-endorsement error and appends nothing
\* to the transaction
C22_UnboundRejected ==
    [][(/\ ec.pc = "select" /\ ec'.pc # "select"
        /\ ec'.hist[Len(ec'.hist)].what = "reply"
        /\ \E j \in 1 .. Len(ReplyResponses(ec'.hist[Len(ec'.hist)])) :
            ~IsBoundTo(ReplyResponses(ec'.hist[Len(ec'.hist)])[j].endorser, Party(ec)))
        => /\ ec'.pc = "returned"
           /\ ec'.res = <<"invalid endorsement", Party(ec)>>
           /\ ec'.tx = ec.tx]_vars

\* C23: in every state the response list of the transaction holds no endorser
\* identity twice; an endorsement by an identity that has endorsed is rejected and
\* the call fails
C23_OncePerIdentity ==
    /\ NoRepeat(ec.tx)
    /\ ~NoRepeat(Offered(ec.hist)) => ec.pc = "returned" /\ ec.res # Nil

C23_Witness ==
    /\ ec.pc = "returned" /\ ec.parties = <<"B", "B">> /\ ec.tx = <<"b">>
    /\ ec.res = <<"failed appending received proposal response", "duplicate endorsement",
                  "b">>

\* hist entry h is one of the failures of a party: an ERROR reply, no response bound
\* to the party, a failed verification, different results
PartyFailure(h) == h.what = "reply" /\ ~VerifiedReply(h)

\* the remote parties among the first n of the list
Remote(p) == ~IsMe(p)
RemoteUpTo(n) == SelectSeq(SubSeq(ec.parties, 1, n), Remote)

\* a failure of a party is the last thing the call has looked at; a failed call
\* returns no transaction and has contacted no party after the failing one
C24_Inv ==
    /\ \A k \in 1 .. Len(ec.hist) :
        PartyFailure(ec.hist[k]) => k = Len(ec.hist) /\ ec.pc = "returned" /\ ec.res # Nil
    /\ ec.pc = "returned" /\ ec.res # Nil =>
        /\ ~ec.ret
        /\ Len(ec.sessions) <= Len(RemoteUpTo(Len(ec.hist)))
        /\ Len(ec.sent) <= Len(RemoteUpTo(Len(ec.hist)))

\* the failing step leaves on the transaction what was appended before it, and the
\* call does nothing after it
C24_Step ==
    /\ ec'.pc = "returned" /\ ec'.res # Nil => IsPrefix(ec.tx, ec'.tx)
    /\ ec.pc = "returned" => ec' = ec

\* C24: collection aborts at the first failing party: it returns an error and no
\* transaction, contacts no later party and leaves the responses appended so far on
\* the transaction
C24_AbortAtFirst == []C24_Inv /\ [][C24_Step]_vars

C24_Witness ==
    /\ ec.pc = "returned" /\ ec.parties = <<"me", "B">> /\ Len(ec.hist) = 2
    /\ ec.res = <<"failed verifying endorsement for party", "b">>
    /\ ec.tx = <<"me">> /\ ec.sent = <<"B">>

\* the proposal has gone, once each and in list order, to the remote parties the loop
\* has reached, over a session opened for each; none is opened for the local party;
\* a timeout is the end of the call, with the error naming the party
C26_Inv ==
    /\ ec.pc = "loop" => ec.sent = RemoteUpTo(Len(ec.hist))
    /\ ec.pc = "select" => ec.sent = RemoteUpTo(Len(ec.hist) + 1)
    /\ IsPrefix(ec.sent, ec.sessions)
    /\ IsPrefix(ec.sessions, RemoteUpTo(Len(ec.parties)))
    /\ Len(ec.sessions) <= Len(ec.sent) + 1
    /\ \A k \in 1 .. Len(ec.hist) :
        ec.hist[k].what = "timeout" =>
            /\ k = Len(ec.hist) /\ ec.pc = "returned" /\ ~ec.ret
            /\ ec.res = <<"Timeout from party", ec.hist[k].party>>
            /\ ec.sent = RemoteUpTo(k)

\* the step of the timeout appends nothing and contacts nobody; the step for the
\* local party opens no session and sends nothing
C26_Step ==
    /\ ec.pc = "select" /\ ec'.hist[Len(ec'.hist)].what = "timeout" =>
        ec'.tx = ec.tx /\ ec'.sent = ec.sent /\ ec'.sessions = ec.sessions
    /\ ec.pc = "loop" /\ Len(ec'.hist) > Len(ec.hist) /\ IsMe(Party(ec)) =>
        ec'.sent = ec.sent /\ ec'.sessions = ec.sessions

\* C26: remote parties are contacted one after another in list order, the proposal
\* sent once to each; a timeout fails the call with an error naming the party, nothing
\* appended for it and no later party contacted; the local identity is endorsed
\* without a session
C26_Sequential == []C26_Inv /\ [][C26_Step]_vars

C26_Witness ==
    /\ ec.pc = "returned" /\ ec.parties = <<"me", "B", "C">> /\ Len(ec.hist) = 2
    /\ ec.res = <<"Timeout from party", "B">>
    /\ ec.tx = <<"me">> /\ ec.sent = <<"B">> /\ ec.sessions = <<"B">>

\* notify holds the mutex and its next send is to a full channel
NotifyBlocked ==
    /\ nf.pc = "send" /\ nf.k < Len(nf.targets)
    /\ Len(chans[nf.targets[nf.k + 1]]) = ChanCap

\* the call of c is at addListener or at the deferred deleteListener
AtRegistryCall(c) == stack[c] # <<>> /\ Top(c).pc \in {"listenTo", "defer"}

\* C25: no call of IsFinal remains blocked: as long as a call is running, some thread
\* can take a step
C25_NoCallBlocked ==
    \A c \in Callers : stack[c] # <<>> => ENABLED <<NextBurst>>_vars

\* C28: in no reachable state is notify blocked on a send to a full subscriber channel
\* while a caller waits for the mutex in deleteListener or addListener
C28_NotifierNeverStalls == ~(NotifyBlocked /\ \E c \in Callers : AtRegistryCall(c))

\* the calls of RunView that are running or about to return
Runs == {rv.stack[d] : d \in 1 .. Len(rv.stack)}

\* the callbacks cleanup has invoked, in order
Ran(f) == [k \in 1 .. Len(f.ran) |-> f.ran[k].f]

\* C27: a call of RunView whose view failed, by a panic or by returning a non-nil
\* error, has run every callback registered on its child context by the time it
\* returns
C27_CleanupOnFailure ==
    \A f \in Runs :
        f.pc = "ret" /\ f.out \in Outcomes \ {"ok"} => Ran(f) = f.errorCallbackFuncs

\* IsFinal is called, and runs, only after Broadcast has returned nil; a call that
\* found no network or whose Broadcast failed returns that error with IsFinal never
\* called
C29_Inv ==
    /\ ov.calls \in {<<>>, <<"Broadcast">>, <<"Broadcast", "IsFinal">>}
    /\ stack["c1"] # <<>> => ov.calls = <<"Broadcast", "IsFinal">>
    /\ Len(ov.calls) = 2 => ov.found /\ ov.berr = Nil
    /\ ~ov.found => ov.pc = "returned" /\ ov.calls = <<>> /\ ov.res = <<"network not found">>
    /\ ov.berr # Nil =>
            ov.pc = "returned" /\ ov.calls = <<"Broadcast">> /\ ov.res = ov.berr
    /\ ov.pc = "returned" /\ ov.found /\ ov.berr = Nil => Len(ov.calls) = 2
    /\ ov.pc = "returned" /\ stack["c1"] # <<>> =>
            Top("c1").pc = "ret" /\ Depth("c1") = 1 /\ ov.res = Top("c1").res

\* the call returns when IsFinal has returned, and not before
C29_Step ==
    ov.pc = "waiting" /\ ov'.pc = "returned" =>
        stack["c1"] # <<>> /\ Top("c1").pc = "ret" /\ ov'.res = Top("c1").res

\* C29: orderingAndFinalityView.Call broadcasts before it waits for finality: IsFinal
\* is called only after Broadcast returned nil; when the network is not found or
\* Broadcast fails, Call returns that error and IsFinal is never called; otherwise
\* Call returns exactly the result of IsFinal
C29_BroadcastThenFinal == []C29_Inv /\ [][C29_Step]_vars

C29_Witness ==
    /\ ov.pc = "returned" /\ ov.calls = <<"Broadcast", "IsFinal">>
    /\ stack["c1"] # <<>> /\ Top("c1").recv /\ Top("c1").res = <<"invalid tx">>
    /\ ov.res = <<"invalid tx">>

\* the goroutines that hold a QueryExecutor on which Done was not called, and those
\* in the critical section of Append or SetStatus
OpenExecutors == {t \in DbThreads : DbThread(t).qe = "open"}
InCritical == {t \in DbThreads : DbThread(t).pc \in {"cs", "unlock"}}

C30_Inv ==
    /\ OpenExecutors # {} => InCritical = {}
    /\ Cardinality(InCritical) <= 1

\* while a writer is in its critical section no NewQueryExecutor returns and no
\* other Append or SetStatus enters
C30_Step ==
    InCritical # {} =>
        /\ \A t \in DbThreads : DbThread(t).qe # "open" => adb'.th[t].qe # "open"
        /\ \A t \in DbThreads \ InCritical : adb'.th[t].pc \notin {"cs", "unlock"}

\* C30: the store lock separates readers from writers: while a QueryExecutor is open
\* (Done not yet called) no Append and no SetStatus is in its critical section; while
\* an Append or SetStatus is in its critical section no NewQueryExecutor returns and
\* no other Append or SetStatus runs
C30_ReadersWriters == []C30_Inv /\ [][C30_Step]_vars

C30_Witness ==
    \E t, u, v \in DbThreads :
        /\ DbThread(t).pc = "cs" /\ adb.cur.op = "Append"
        /\ DbThread(u).pc = "rlock"
        /\ DbThread(v).qe = "closed" /\ DbThread(v).pc = "idle"
        /\ adb.store["r1"] = "Confirmed"

\* the response j of the reply of hist entry h was reached by the loop and passed the
\* verification of its signature and the comparison of its results
PassedChecks(h, j) ==
    /\ h.what = "reply" /\ h.reply.status = "OK" /\ h.reply.parsable
    /\ j \in 1 .. Len(ReplyResponses(h))
    /\ \A i \in 1 .. j : ReplyResponses(h)[i].check = "ok"

\* the responses of the transaction that came from a remote party
RemoteEndorsements == {k \in 1 .. Len(ec.tx) : ec.tx[k] \notin Parties}

\* the responses of the replies received so far that passed both checks
PassedResponses ==
    {<<k, j>> \in (1 .. Len(ec.hist)) \X (1 .. MaxResponses) : PassedChecks(ec.hist[k], j)}

\* C31: in every state, after a failed call too, every response of the transaction
\* that came from a remote party is a response that passed the verification of its
\* signature and the comparison of its results with the local ones before it was
\* appended; the transaction holds no more remote responses than passed
C31_OnlyVerified ==
    /\ \A k \in RemoteEndorsements :
        \E kj \in PassedResponses :
            ReplyResponses(ec.hist[kj[1]])[kj[2]].endorser = ec.tx[k]
    /\ Cardinality(RemoteEndorsements) <= Cardinality(PassedResponses)

C31_Witness ==
    /\ ec.pc = "returned" /\ ec.parties = <<"B", "C">>
    /\ ec.res = <<"failed verifying endorsement for party", "b">>
    /\ ec.tx = <<"c">>
    /\ Len(ec.hist) = 1

\* the order in which the sources of a verifier are to be asked: the membership
\* service, the providers of the view, the providers of the transaction
RECURSIVE SourcesOf(_, _)
SourcesOf(src, n) == IF n = 0 THEN <<>> ELSE Append(SourcesOf(src, n - 1), <<src, n>>)

NumProviders(src) == Cardinality({k \in 1 .. Len(vr.providers) : vr.providers[k].src = src})

SourceOrder == <<"msp">> \o SourcesOf("view", NumProviders("view"))
                          \o SourcesOf("tx", NumProviders("tx"))

\* what the source answers
AnswerOf(source) ==
    IF source = "msp" THEN vr.msp
    ELSE LET k == CHOOSE k \in 1 .. Len(vr.providers) :
                    <<vr.providers[k].src, vr.providers[k].k>> = source
         IN  vr.providers[k].out

\* C32: the sources are asked in the order membership service, providers of the view,
\* providers of the transaction; a source is asked only when every source before it
\* failed; the verifier used is the one of the first source that returned one; when
\* every source fails the call fails and the response is not appended
C32_VerifierOrder ==
    /\ IsPrefix(vr.asked, SourceOrder)
    /\ \A n \in 1 .. Len(vr.asked) - 1 : AnswerOf(vr.asked[n]) = "err"
    /\ vr.verifier # "none" =>
            /\ vr.asked # <<>>
            /\ vr.verifier = AnswerOf(vr.asked[Len(vr.asked)])
            /\ vr.verifier # "err"
    /\ vr.pc = "done" =>
            /\ vr.verifier = "none" =>
                    /\ vr.asked = SourceOrder
                    /\ \A n \in 1 .. Len(vr.asked) : AnswerOf(vr.asked[n]) = "err"
                    /\ vr.st.err = <<"failed getting verifier for party", "b">>
                    /\ vr.st.tx = <<>>
            /\ vr.verifier = "bad" =>
                    /\ vr.st.err = <<"failed verifying endorsement for party", "b">>
                    /\ vr.st.tx = <<>>
            /\ vr.verifier = "good" /\ vr.same => vr.st.err = Nil /\ vr.st.tx = <<"b">>

C32_Witness ==
    /\ vr.pc = "done" /\ vr.msp = "err"
    /\ vr.asked = <<"msp", <<"view", 1>>, <<"tx", 1>>>>
    /\ Len(vr.providers) = 3
    /\ vr.verifier = "good" /\ vr.st.tx = <<"b">>

\* the events notified in the window reach no channel of c1: its call receives nothing
NotDelivered ==
    \A f \in Frames("c1") :
        /\ ~f.recv
        /\ f.ch # NoChan /\ f.pc \in {"select", "defer"} => chans[f.ch] = <<>>

\* C33 as stated: a call whose events were all notified in the window receives none
\* of them and returns by a second Status query alone, nil iff that query reports
\* Valid
C33_SecondQueryDecides ==
    /\ NotDelivered
    /\ \A f \in Frames("c1") :
        f.ch # NoChan /\ Returning(f) =>
            /\ f.nq = 2
            /\ f.res = Nil <=> (f.err = Nil /\ f.vd = Valid)

\* C33: an event notified in the window is not delivered to the call; the call leaves
\* its wait by the timeout only, and then either fails to obtain the committer and
\* returns that error without a second Status query, or returns by the second query,
\* nil iff it reports Valid
C33_MissedEvent ==
    /\ NotDelivered
    /\ \A f \in Frames("c1") :
        f.ch # NoChan /\ Returning(f) =>
            /\ TimedOut(f)
            /\ \/ f.nq = 1 /\ f.res = <<"no committer">>
               \/ f.nq = 2 /\ (f.res = Nil <=> (f.err = Nil /\ f.vd = Valid))

\* c1 missed the event that c2, registered before, received; c1 timed out and returned
\* by its second query
C33_Witness ==
    /\ notified = 1
    /\ stack["c1"] # <<>> /\ Top("c1").pc = "ret" /\ TimedOut(Top("c1"))
    /\ Top("c1").nq = 2 /\ Top("c1").vd = Valid /\ Top("c1").res = Nil
    /\ stack["c2"] # <<>> /\ Top("c2").recv /\ Top("c2").got.Txid = "A"
    /\ Top("c2").got.Err = <<"invalid tx">>

\* the ways a view ends by a panic
Panics == {"panic error", "panic string", "panic value"}

C34_Inv ==
    \A f \in Runs :
        f.pc = "ret" /\ f.out \in Panics =>
            /\ f.res = "nil" /\ f.err # Nil
            /\ Ran(f) = f.errorCallbackFuncs

\* the panic ends with the call: the caller of RunView goes on with the values returned
C34_Step ==
    rv.stack # <<>> /\ RunTop.pc = "ret" /\ RunTop.out \in Panics
    /\ Len(rv'.stack) < Len(rv.stack) =>
        /\ rv'.result = [res |-> "nil", err |-> RunTop.err]
        /\ rv'.stack = SubSeq(rv.stack, 1, Len(rv.stack) - 1)
        /\ rv'.stack # <<>> =>
                /\ rv'.stack[Len(rv'.stack)].pc = "view"
                /\ rv'.stack[Len(rv'.stack)].out = "none"

\* C34: when the view run by RunView panics, RunView returns a nil result and a
\* non-nil error to its caller, which goes on running, after cleanup has invoked every
\* callback registered on the child context exactly once, in the order of
\* registration, the callbacks after one that panics included
C34_PanicRecovered == []C34_Inv /\ [][C34_Step]_vars

C34_Witness ==
    /\ Len(rv.stack) = 2 /\ RunTop.pc = "ret" /\ RunTop.out = "panic value"
    /\ RunTop.errorCallbackFuncs = <<"g", "f">>
    /\ RunTop.ran = <<[f |-> "g", panicked |-> TRUE], [f |-> "f", panicked |-> FALSE]>>
    /\ RunTop.err = <<"caught panic", "panic value">>

\* an Append has run its body: its record, the driver call drawn to fail and the
\* calls it made
AppendRan == adb.cur.op = "Append" /\ Len(adb.cur.arg) = 3
AppendRec == adb.cur.arg[2]
AppendFailAt == adb.cur.arg[3]

Positions(calls, name) == {k \in 1 .. Len(calls) : calls[k] = name}

\* the driver calls that precede Commit when nothing fails
CallsBeforeCommit(rec) ==
    <<"BeginUpdate">> \o [k \in 1 .. rec.sends + rec.recvs |-> "AddMovement"]
                      \o [k \in 1 .. rec.txs |-> "AddTransaction"]

\* the driver call drawn to fail was made
DriverFailed ==
    /\ AppendFailAt \in 1 .. Len(adb.calls)
    /\ adb.calls[AppendFailAt] # "Discard"

\* C35: Append invokes Commit at most once, and only after BeginUpdate and every
\* AddMovement and AddTransaction of the record succeeded; when a driver call fails
\* Append returns an error, Discard has been invoked and Commit is not invoked after
\* the failure; Append returns nil only after the one Commit succeeded, and only then
\* is the record stored
C35_AllOrNothing ==
    AppendRan =>
        /\ Cardinality(Positions(adb.calls, "Commit")) <= 1
        /\ \A p \in Positions(adb.calls, "Commit") :
            /\ SubSeq(adb.calls, 1, p - 1) = CallsBeforeCommit(AppendRec)
            /\ AppendRec.valid /\ AppendRec.inputsOk
            /\ AppendFailAt = 0 \/ AppendFailAt >= p
        /\ DriverFailed =>
            /\ adb.err # Nil
            /\ Positions(adb.calls, "Discard") # {}
            /\ \A p \in Positions(adb.calls, "Commit") : p <= AppendFailAt
        /\ adb.err = Nil =>
            /\ adb.calls = Append(CallsBeforeCommit(AppendRec), "Commit")
            /\ ~DriverFailed
            /\ adb.store[adb.cur.arg[1]] = "Pending"
        /\ adb.err # Nil /\ adb.store[adb.cur.arg[1]] = "absent" =>
            Positions(adb.calls, "Commit") \subseteq {AppendFailAt}

C35_Witness ==
    /\ AppendRan /\ adb.th["t1"].pc = "unlock"
    /\ adb.calls = <<"BeginUpdate", "AddMovement", "AddTransaction", "AddTransaction",
                     "Commit", "Discard">>
    /\ adb.err = <<"Commit", "failed">>
    /\ adb.store[adb.cur.arg[1]] = "absent"

\* no NewQueryExecutor is between counter.Inc() and the return of RLock
NoQueryCallInProgress == \A t \in DbThreads : DbThread(t).pc # "rlock"

C37_Inv ==
    /\ adb.counter >= 0
    /\ adb.storeLock.r = Cardinality(OpenExecutors)
    /\ NoQueryCallInProgress => adb.counter = Cardinality(OpenExecutors)

\* the counter goes down, and a read lock is released, only by one and by the first
\* Done on an open executor; a step that closes no executor, a later Done included,
\* leaves both as they are
C37_Step ==
    LET closing == {t \in DbThreads : DbThread(t).qe = "open" /\ adb'.th[t].qe = "closed"}
    IN  /\ adb'.counter < adb.counter \/ adb'.storeLock.r < adb.storeLock.r =>
                Cardinality(closing) = 1
        /\ Cardinality(closing) = 1 =>
                /\ adb'.counter = adb.counter - 1
                /\ adb'.storeLock.r = adb.storeLock.r - 1
        /\ \A t \in DbThreads : DbThread(t).qe = "closed" => adb'.th[t].qe # "none"

\* C37: the first Done on an executor decrements the counter by one and releases one
\* read lock, later calls of Done on it change nothing; the counter is never negative
\* and, whenever no NewQueryExecutor is in progress, equals the number of executors
\* created and not closed
C37_DoneIdempotent == []C37_Inv /\ [][C37_Step]_vars

C37_Witness ==
    /\ DbThread("t1").qe = "closed" /\ DbThread("t1").pc = "idle"
    /\ DbThread("t2").qe = "open" /\ DbThread("t3").qe = "open"
    /\ adb.counter = 2 /\ adb.storeLock.r = 2
    /\ adb.store["r1"] = "Pending"

\* the caller is in AcquireLocks, at an id whose lock v holds
WaitsFor(u, v) ==
    /\ LockCaller(u).pc = "acquire"
    /\ el.holder[LockCaller(u).ids[LockCaller(u).i]] = v

\* C36: no two callers of AcquireLocks each hold a lock the other is waiting for
C36_NoCircularWait ==
    \A u, v \in LockCallers : ~(u # v /\ WaitsFor(u, v) /\ WaitsFor(v, u))

\* the calls on the network made by the step
NewCalls ==
    IF Len(cm'.calls) >= Len(cm.calls)
    THEN SubSeq(cm'.calls, Len(cm.calls) + 1, Len(cm'.calls))
    ELSE cm'.calls

CallsOf(calls, name) == {k \in 1 .. Len(calls) : calls[k].call = name}

\* one call of handleConfig: CommitConfig at most once and for a valid configuration
\* transaction only; the ledger is asked for the block only when handleConfig is
\* called without one, which Commit, in its loop, never does
C38_Step ==
    /\ Cardinality(CallsOf(NewCalls, "CommitConfig")) <= 1
    /\ CallsOf(NewCalls, "CommitConfig") # {} =>
        /\ cm'.txs[Len(cm'.txs)].type = HeaderType_CONFIG
        /\ cm'.txs[Len(cm'.txs)].code = TxValidationCode_VALID
        /\ cm'.n = 1
    /\ CallsOf(NewCalls, "GetBlockByNumber") # {} => cm.pc = "idle"
    /\ cm.pc = "loop" =>
        CallsOf(NewCalls, "GetBlockByNumber") = {} /\ CallsOf(NewCalls, "Ledger") = {}
    /\ cm.pc = "idle" /\ cm'.calls # <<>> =>
        /\ cm'.calls[1].call = "Ledger"
        /\ cm'.calls[1].ok /\ Len(cm'.calls) > 1 => cm'.calls[2].call = "GetBlockByNumber"

\* C38: handleConfig invokes CommitConfig at most once for a configuration
\* transaction, and only when its validation code is VALID; it calls GetBlockByNumber
\* only when it is invoked without a block, never when a block is passed in
C38_ConfigCalls ==
    [](Cardinality(CallsOf(cm.calls, "CommitConfig")) <= 1) /\ [][C38_Step]_vars

C38_Witness ==
    /\ cm.pc = "notify" /\ cm.n = 1
    /\ cm.calls = <<Call("Ledger", TRUE), Call("GetBlockByNumber", TRUE),
                    Call("Committer", TRUE), Call("CommitConfig", TRUE)>>
    /\ cm.txs[1].code = TxValidationCode_VALID
====
